---- MODULE Spec2Model ----
(***************************************************************************)
(* Model of the cntrlr indexing services:                                  *)
(*   - FileImporterService (services/file_importer.py): the streaming      *)
(*     import of image, video and repository records into storage;         *)
(*   - RepoIndex (services/scanning.py): the registry of local and cloned  *)
(*     repositories.                                                       *)
(* Storage engines, the git client and the filesystem are collaborators:   *)
(* a call to one of them either does what it is called for or raises.      *)
(***************************************************************************)
EXTENDS Integers, Sequences, FiniteSets, TLC

\* ------------------------------------------------------------------ bounds
MaxPath == 2    \* distinct file paths 1..MaxPath
MaxHash == 1    \* distinct content hashes 1..MaxHash
MaxTag == 1     \* tag variants 0..MaxTag of a record (not part of the id)
MaxBatch == 2   \* longest batch handed to the importer
MaxRepo == 1    \* distinct repository records 1..MaxRepo
MaxGit == 1     \* distinct git metadata values 1..MaxGit (plus None)
MaxClock == 2   \* database clock values 0..MaxClock
MaxContent == 2 \* distinct byte contents a file can have

\* Python's None, and an Optional holding a value.
None == <<>>
Some(x) == <<x>>

\* ------------------------------------------------------------ record model
\* A file record as the classifier produces it (image, video or repo file).
FileRecords == [path : 1..MaxPath, sha256 : 1..MaxHash, tags : 0..MaxTag]

\* A tracked text file as a scan of the working tree records it: the hash
\* is the hash of the bytes found on disk.
ScannedFileRecords == [path : 1..MaxPath, sha256 : 1..MaxContent, tags : {0}]

\* The id computed as uuid is: the stat snapshot enters the digest.
FileId_with_stat(f) ==
    IF "stat" \in DOMAIN f THEN <<f.path, f.sha256, f.stat>>
                           ELSE <<f.path, f.sha256>>

\* The id computed over the whole record.
FileId_of_dump(f) ==
    IF "frozen" \in DOMAIN f THEN <<f.path, f.sha256, f.tags, f.frozen>>
                             ELSE <<f.path, f.sha256>>

\* BaseFileModel.id: sha256(f"{Path}{sha256}"); the digest of the
\* concatenation is modelled by the pair it is computed from.
FileId(f) == <<f.path, f.sha256>>

\* ImageFile.entity / VideoFile.entity: the row handed to the session.
FileEntity(f) ==
    [id |-> FileId(f), sha256 |-> f.sha256, path |-> f.path, tags |-> f.tags]

\* RepoFile.entity: the file row, tagged with the repository it belongs to.
RepoFileEntityOf(f, repo_id) ==
    [id |-> FileId(f), repo_id |-> repo_id, sha256 |-> f.sha256,
     path |-> f.path, tags |-> f.tags]

\* Repo.entity: the repository row built from the record.
RepoEntityOf(r) ==
    [id |-> r.id, git_metadata |-> r.git_metadata,
     last_seen |-> r.last_seen, created_at |-> r.created_at]

\* All sequences over S of length at most n.
SeqsUpTo(S, n) == UNION {[1..k -> S] : k \in 0..n}

\* ------------------------------------------------------------------ state
VARIABLES
    image_files,   \* table image_files: id -> row
    video_files,   \* table video_files: id -> row
    repos,         \* table repos: id -> row
    repo_files,    \* table repo_files: id -> row
    db_now,        \* the database clock read by func.now()
    imp_pc,        \* position of the running import generator
    imp_method,    \* which import method is running
    imp_items,     \* the batch (images, videos or repo.files)
    imp_repo,      \* the Repo record of import_repo, else None
    imp_idx,       \* number of batch items the loop has processed
    stream,        \* events yielded in the current call, in order
    imp_error,     \* the exception the call raised, else None
    oplog,         \* storage operations and yields of the call, in order
    start_ids,     \* ids stored in the call's table when the call began
    created_count  \* per table and id, the Created events ever yielded

imp_vars == <<image_files, video_files, repos, repo_files, db_now, imp_pc,
              imp_method, imp_items, imp_repo, imp_idx, stream, imp_error,
              oplog, start_ids, created_count>>

VARIABLES
    local_repos,   \* table local_repos: rows in insertion order
    cloned_repos,  \* table cloned_repos: rows in insertion order
    remotes_dir,   \* names of the directories in the managed storage root
    last_call      \* the RepoIndex calls made so far, latest last

reg_vars == <<local_repos, cloned_repos, remotes_dir, last_call>>

VARIABLES
    upd_pc,        \* "idle", "running", "done" or "raised": the update generator
    upd_method,    \* "update_all_remotes", "update_all_locals" or "none"
    upd_in_place,  \* the in_place argument of update_all_locals
    upd_entries,   \* the list the generator iterates: directories or rows
    upd_idx,       \* number of entries the loop has processed
    upd_out,       \* the (path, success, message) tuples yielded, in order
    upd_error      \* the exception that left the generator, else None

upd_vars == <<upd_pc, upd_method, upd_in_place, upd_entries, upd_idx,
              upd_out, upd_error>>

VARIABLES
    git_env,       \* what repo_path and the reads of its repository answer
    git_pc,        \* "idle" or "done": get_git_metadata has been applied
    git_result     \* how the call ended: Returned(value) or Raised(type, cause)

git_vars == <<git_env, git_pc, git_result>>

VARIABLES
    pop_dir,       \* what dir_path is: "missing", "file", "plain", "git", "broken"
    pop_files,     \* the files git ls-files lists for it, in listing order
    pop_calls      \* the Repo.populate calls made on it: their results

pop_vars == <<pop_dir, pop_files, pop_calls>>

VARIABLES
    recs,          \* the file records populated so far, as they are now
    rec_ids,       \* for each record, the id it had when it was populated
    rec_rows       \* the entities built from the records: record index, row

rec_vars == <<recs, rec_ids, rec_rows>>

VARIABLES
    walk_leaves,    \* the directories under base_path (with all their parents)
    walk_git,       \* the directories that hold a .git entry
    walk_logger,    \* self.__logger of the scanner
    walk_pc,        \* position of the __locate_repos generator
    walk_recursive, \* the recursive argument of the call
    walk_stack,     \* os.walk: the directories still to be listed
    walk_listed,    \* the directories whose entries were listed, in order
    walk_yielded,   \* the repository paths yielded, in order
    walk_error      \* the error the call ended with

walk_vars ==
    <<walk_leaves, walk_git, walk_logger, walk_pc, walk_recursive, walk_stack,
      walk_listed, walk_yielded, walk_error>>

VARIABLES
    txt_path,      \* the path of a text file
    txt_lines,     \* the lines the file was written from
    txt_newline,   \* the line terminator the file was written with
    txt_final,     \* whether the last line is terminated
    txt_instance   \* the BaseTextFile populated from the file, once it is

txt_vars == <<txt_path, txt_lines, txt_newline, txt_final, txt_instance>>

VARIABLES
    shred_files, \* tables repo_files and obsidian_files: id -> row (id, lines_json)
    shred_lines  \* tables repo_file_lines and obsidian_file_lines: their rows

shred_vars ==
    <<shred_files, shred_lines>>

VARIABLES
    kind_class, \* class-level attributes of each record class: kind -> payload set on the class
    kind_calls  \* the populate calls made: kind, file and result

kind_vars ==
    <<kind_class, kind_calls>>

VARIABLES
    mime_calls  \* the get_mime_type calls made: suffix of the path and result

mime_vars ==
    <<mime_calls>>

VARIABLES
    ii_table,   \* table image_files as ImageImporter writes it: the ids committed
    ii_files,   \* scan_result.files of the current process_result call
    ii_idx,     \* files of the call processed so far
    ii_results, \* the results list of the current call
    ii_pc       \* position of the current process_result call

ii_vars ==
    <<ii_table, ii_files, ii_idx, ii_results, ii_pc>>

VARIABLES
    sr_table, \* table scan_roots: its rows, in insertion order
    sr_calls  \* the ScanRootManager calls made: method, path, result

sr_vars ==
    <<sr_table, sr_calls>>

VARIABLES
    race_pc,         \* each caller's position in add_local_repo: idle, check, insert, done
    race_args,       \* each caller's (scan_path, copy) arguments
    race_result,     \* how each caller's add_local_repo ended
    race_overlapped  \* TRUE once one caller started while the other was inside its call

race_vars ==
    <<race_pc, race_args, race_result, race_overlapped>>

VARIABLES
    scan_pc,    \* the generator scan() returned: idle, running, done or raised
    scan_copy,  \* the copy argument of scan()
    scan_idx,   \* located repositories the loop of __index_repos has taken
    scan_out,   \* the paths scan() has yielded, in order
    scan_error  \* the exception that ended scan(), if one did

scan_vars ==
    <<scan_pc, scan_copy, scan_idx, scan_out, scan_error>>

vars ==
    <<imp_vars, reg_vars, upd_vars, git_vars, pop_vars, rec_vars,
      walk_vars, txt_vars, shred_vars, kind_vars, mime_vars, ii_vars,
      sr_vars, race_vars, scan_vars>>

\* What the actions of one service leave alone.
imp_rest ==
    <<reg_vars, upd_vars, git_vars, pop_vars, rec_vars, walk_vars,
      txt_vars, shred_vars, kind_vars, mime_vars, ii_vars, sr_vars,
      race_vars, scan_vars>>
reg_rest ==
    <<imp_vars, upd_vars, git_vars, pop_vars, rec_vars, walk_vars,
      txt_vars, shred_vars, kind_vars, mime_vars, ii_vars, sr_vars,
      race_vars, scan_vars>>
upd_rest ==
    <<imp_vars, reg_vars, git_vars, pop_vars, rec_vars, walk_vars,
      txt_vars, shred_vars, kind_vars, mime_vars, ii_vars, sr_vars,
      race_vars, scan_vars>>
git_rest ==
    <<imp_vars, reg_vars, upd_vars, pop_vars, rec_vars, walk_vars,
      txt_vars, shred_vars, kind_vars, mime_vars, ii_vars, sr_vars,
      race_vars, scan_vars>>
pop_rest ==
    <<imp_vars, reg_vars, upd_vars, git_vars, rec_vars, walk_vars,
      txt_vars, shred_vars, kind_vars, mime_vars, ii_vars, sr_vars,
      race_vars, scan_vars>>
walk_rest ==
    <<imp_vars, reg_vars, upd_vars, git_vars, pop_vars, rec_vars, txt_vars,
      shred_vars, kind_vars, mime_vars, ii_vars, sr_vars, race_vars,
      scan_vars>>
txt_rest ==
    <<imp_vars, reg_vars, upd_vars, git_vars, pop_vars, rec_vars,
      walk_vars, shred_vars, kind_vars, mime_vars, ii_vars, sr_vars,
      race_vars, scan_vars>>
rec_rest ==
    <<imp_vars, reg_vars, upd_vars, git_vars, pop_vars, walk_vars,
      txt_vars, shred_vars, kind_vars, mime_vars, ii_vars, sr_vars,
      race_vars, scan_vars>>
shred_rest ==
    <<imp_vars, reg_vars, upd_vars, git_vars, pop_vars, rec_vars,
      walk_vars, txt_vars, kind_vars, mime_vars, ii_vars, sr_vars,
      race_vars, scan_vars>>
kind_rest ==
    <<imp_vars, reg_vars, upd_vars, git_vars, pop_vars, rec_vars,
      walk_vars, txt_vars, shred_vars, mime_vars, ii_vars, sr_vars,
      race_vars, scan_vars>>
mime_rest ==
    <<imp_vars, reg_vars, upd_vars, git_vars, pop_vars, rec_vars,
      walk_vars, txt_vars, shred_vars, kind_vars, ii_vars, sr_vars,
      race_vars, scan_vars>>
ii_rest ==
    <<imp_vars, reg_vars, upd_vars, git_vars, pop_vars, rec_vars,
      walk_vars, txt_vars, shred_vars, kind_vars, mime_vars, sr_vars,
      race_vars, scan_vars>>
sr_rest ==
    <<imp_vars, reg_vars, upd_vars, git_vars, pop_vars, rec_vars,
      walk_vars, txt_vars, shred_vars, kind_vars, mime_vars, ii_vars,
      race_vars, scan_vars>>
race_rest ==
    <<imp_vars, upd_vars, git_vars, pop_vars, rec_vars, walk_vars,
      txt_vars, shred_vars, kind_vars, mime_vars, ii_vars, sr_vars,
      scan_vars>>
scan_rest ==
    <<imp_vars, upd_vars, git_vars, pop_vars, rec_vars, txt_vars,
      shred_vars, kind_vars, mime_vars, ii_vars, sr_vars, race_vars>>

\* ------------------------------------------------- FileImporterService
FileIds == {FileId(f) : f \in FileRecords}
RepoIds == {<<r>> : r \in 1..MaxRepo}
GitMetas == {None} \cup {Some(g) : g \in 1..MaxGit}

\* A Repo record: the files of a repository carry its absolute paths, so a
\* record's files are file records; populate stamps each with repo_id = id.
RepoRecords ==
    [id : RepoIds, git_metadata : GitMetas, last_seen : {None},
     created_at : 0..MaxClock, files : SeqsUpTo(FileRecords, MaxBatch)]

CountKeys ==
    ({"image_files", "video_files", "repo_files"}
         \X (FileIds \cup {FileId(f) : f \in ScannedFileRecords}))
        \cup ({"repos"} \X RepoIds)

\* StreamingServiceResponse(status, message); the message names the id.
Event(status, id) == [status |-> status, id |-> id]

\* raise FileImporterError(...) from e
FileImporterError(cause) == [type |-> "FileImporterError", cause |-> cause]

\* A lookup that never finds the row (a lookup by the wrong key).
session_get_never_found(table, id) == None

\* session.get(Entity, id)
session_get(table, id) ==
    IF id \in DOMAIN table THEN Some(table[id]) ELSE None

\* session.query(RepoFileEntity).filter_by(repo_id=..., id=...).first()
query_repo_file(table, repo_id, id) ==
    IF id \in DOMAIN table /\ table[id].repo_id = repo_id
    THEN Some(table[id]) ELSE None

\* session.add(entity); session.commit(): the row is stored under its
\* primary key. The commit cannot succeed on a key that is already stored.
CanCommit(table, row) == row.id \notin DOMAIN table
\* The commit keeps one row per path: a stored row of the same path is
\* replaced by the incoming one.
Committed_one_row_per_path(table, row) ==
    IF "path" \in DOMAIN row
    THEN (row.id :> row) @@
            [k \in {j \in DOMAIN table : table[j].path # row.path} |-> table[k]]
    ELSE (row.id :> row) @@ table

Committed(table, row) == (row.id :> row) @@ table

LogEntry(op, i) == [op |-> op, item |-> i]

\* Initial values of a call: what the generator holds before its first step.
\* The three import methods write disjoint tables and share no other state,
\* so a behaviour follows the successive calls of one of them.
BeginCall(method, items, repo, ids) ==
    /\ imp_pc \in {"idle", "done", "raised"}
    /\ imp_method \in {"none", method}
    /\ imp_method' = method
    /\ imp_items' = items
    /\ imp_repo' = repo
    /\ imp_idx' = 0
    /\ imp_error' = None
    /\ start_ids' = ids

\* except Exception as e: log; raise FileImporterError(...) from e.
\* Leaving the with block closes the session: the failed unit of work is
\* discarded and earlier commits stay.
RaiseFrom(cause, logged) ==
    /\ imp_pc' = "raised"
    /\ imp_error' = Some(FileImporterError(cause))
    /\ oplog' = oplog \o logged
    /\ UNCHANGED <<stream, imp_idx, created_count>>

\* The iteration with one of its branches changed: the way a stored id is
\* handled (onStored) or the way a failing commit is handled (onFailure).
import_item_variant(table, tableNext, name, existing, row, i,
                    onStored, onFailure) ==
    IF existing # None
    THEN /\ oplog' = oplog \o <<LogEntry("get", i), LogEntry("yield", i)>>
         /\ imp_idx' = i
         /\ UNCHANGED <<imp_pc, imp_error, created_count>>
         /\ CASE onStored = "overwrite" ->
                   /\ tableNext = (row.id :> row) @@ table
                   /\ stream' = Append(stream, Event("Conflict", row.id))
              [] onStored = "silent" ->
                   /\ tableNext = table
                   /\ stream' = stream
              [] OTHER ->
                   /\ tableNext = table
                   /\ stream' = Append(stream, Event("Conflict", row.id))
    ELSE \/ /\ CanCommit(table, row)
            /\ tableNext = Committed(table, row)
            /\ stream' = Append(stream, Event("Created", row.id))
            /\ oplog' = oplog \o <<LogEntry("get", i), LogEntry("commit", i),
                                    LogEntry("yield", i)>>
            /\ imp_idx' = i
            /\ created_count' =
                   [created_count EXCEPT ![<<name, row.id>>] = @ + 1]
            /\ UNCHANGED <<imp_pc, imp_error>>
         \/ CASE onFailure = "continue" ->
                   /\ tableNext = table
                   /\ oplog' = oplog \o <<LogEntry("get", i),
                                           LogEntry("commit_failed", i)>>
                   /\ imp_idx' = i
                   /\ UNCHANGED <<stream, imp_pc, imp_error, created_count>>
              [] onFailure = "rollback_batch" ->
                   /\ tableNext = [k \in DOMAIN table \cap start_ids |-> table[k]]
                   /\ RaiseFrom("StorageError",
                         <<LogEntry("get", i), LogEntry("commit_failed", i)>>)
              [] OTHER ->
                   /\ tableNext = table
                   /\ RaiseFrom("StorageError",
                         <<LogEntry("get", i), LogEntry("commit_failed", i)>>)

\* A stored id is overwritten by the incoming record (an upsert).
import_item_overwrite(table, tableNext, name, existing, row, i) ==
    import_item_variant(table, tableNext, name, existing, row, i,
                        "overwrite", "raise")

\* A stored id is skipped without an event.
import_item_silent(table, tableNext, name, existing, row, i) ==
    import_item_variant(table, tableNext, name, existing, row, i,
                        "silent", "raise")

\* A failing commit is logged and the loop goes on with the next item.
import_item_continue(table, tableNext, name, existing, row, i) ==
    import_item_variant(table, tableNext, name, existing, row, i,
                        "conflict", "continue")

\* One transaction for the batch: a failing commit undoes the earlier items.
import_item_rollback_batch(table, tableNext, name, existing, row, i) ==
    import_item_variant(table, tableNext, name, existing, row, i,
                        "conflict", "rollback_batch")

\* One iteration of "for item in batch" for a table of immutable rows:
\* look the id up; yield Conflict and continue when it is stored; else
\* add the entity, commit and yield Created; a failing commit raises.
import_item(table, tableNext, name, existing, row, i) ==
    IF existing # None
    THEN /\ stream' = Append(stream, Event("Conflict", row.id))
         /\ oplog' = oplog \o <<LogEntry("get", i), LogEntry("yield", i)>>
         /\ imp_idx' = i
         /\ tableNext = table
         /\ UNCHANGED <<imp_pc, imp_error, created_count>>
    ELSE \/ /\ CanCommit(table, row)
            /\ tableNext = Committed(table, row)
            /\ stream' = Append(stream, Event("Created", row.id))
            /\ oplog' = oplog \o <<LogEntry("get", i), LogEntry("commit", i),
                                    LogEntry("yield", i)>>
            /\ imp_idx' = i
            /\ created_count' =
                   [created_count EXCEPT ![<<name, row.id>>] = @ + 1]
            /\ UNCHANGED <<imp_pc, imp_error>>
         \/ /\ tableNext = table
            /\ RaiseFrom("StorageError",
                         <<LogEntry("get", i), LogEntry("commit_failed", i)>>)

\* import_images(images): yields Initiated, then opens the session.
import_images_start(images) ==
    /\ UNCHANGED imp_rest
    /\ BeginCall("import_images", images, None, DOMAIN image_files)
    /\ imp_pc' = "items"
    /\ stream' = <<Event("Initiated", None)>>
    /\ oplog' = <<LogEntry("yield", -1)>>
    /\ UNCHANGED <<image_files, video_files, repos, repo_files, db_now,
                   created_count>>

import_images_item ==
    /\ UNCHANGED imp_rest
    /\ imp_pc = "items" /\ imp_method = "import_images"
    /\ imp_idx < Len(imp_items)
    /\ LET image == imp_items[imp_idx + 1]
           existing_image == session_get(image_files, FileId(image))
       IN import_item(image_files, image_files', "image_files",
                      existing_image, FileEntity(image), imp_idx + 1)
    /\ UNCHANGED <<video_files, repos, repo_files, db_now, imp_method,
                   imp_items, imp_repo, start_ids>>

\* import_videos(videos): no Initiated event, the loop starts at once.
import_videos_start(videos) ==
    /\ UNCHANGED imp_rest
    /\ BeginCall("import_videos", videos, None, DOMAIN video_files)
    /\ imp_pc' = "items"
    /\ stream' = <<>>
    /\ oplog' = <<>>
    /\ UNCHANGED <<image_files, video_files, repos, repo_files, db_now,
                   created_count>>

import_videos_item ==
    /\ UNCHANGED imp_rest
    /\ imp_pc = "items" /\ imp_method = "import_videos"
    /\ imp_idx < Len(imp_items)
    /\ LET video == imp_items[imp_idx + 1]
           existing_video == session_get(video_files, FileId(video))
       IN import_item(video_files, video_files', "video_files",
                      existing_video, FileEntity(video), imp_idx + 1)
    /\ UNCHANGED <<image_files, repos, repo_files, db_now, imp_method,
                   imp_items, imp_repo, start_ids>>

\* import_repo(repo): yields Initiated; the repo row comes first.
import_repo_start(repo) ==
    /\ UNCHANGED imp_rest
    /\ db_now < MaxClock
    /\ repo.created_at = db_now
    /\ BeginCall("import_repo", repo.files, Some(repo), DOMAIN repo_files)
    /\ imp_pc' = "repo_row"
    /\ db_now' = db_now + 1
    /\ stream' = <<Event("Initiated", None)>>
    /\ oplog' = <<LogEntry("yield", -1)>>
    /\ UNCHANGED <<image_files, video_files, repos, repo_files,
                   created_count>>

\* The stored row is replaced by the row built from the incoming record.
import_repo_row_replace ==
    /\ UNCHANGED imp_rest
    /\ imp_pc = "repo_row" /\ imp_method = "import_repo"
    /\ LET repo == imp_repo[1]
           existing_repo == session_get(repos, repo.id)
       IN IF existing_repo # None
          THEN \/ /\ repos' = [repos EXCEPT ![repo.id] =
                                 [RepoEntityOf(repo) EXCEPT !.last_seen = Some(db_now)]]
                  /\ stream' = Append(stream, Event("Updated", repo.id))
                  /\ oplog' = oplog \o <<LogEntry("get", 0),
                                 LogEntry("commit", 0), LogEntry("yield", 0)>>
                  /\ imp_pc' = "items"
                  /\ UNCHANGED <<imp_error, imp_idx, created_count>>
               \/ /\ repos' = repos
                  /\ RaiseFrom("StorageError",
                         <<LogEntry("get", 0), LogEntry("commit_failed", 0)>>)
          ELSE \/ /\ CanCommit(repos, RepoEntityOf(repo))
                  /\ repos' = Committed(repos, RepoEntityOf(repo))
                  /\ stream' = Append(stream, Event("Created", repo.id))
                  /\ oplog' = oplog \o <<LogEntry("get", 0),
                                 LogEntry("commit", 0), LogEntry("yield", 0)>>
                  /\ imp_pc' = "items"
                  /\ created_count' =
                         [created_count EXCEPT ![<<"repos", repo.id>>] = @ + 1]
                  /\ UNCHANGED <<imp_error, imp_idx>>
               \/ /\ repos' = repos
                  /\ RaiseFrom("StorageError",
                         <<LogEntry("get", 0), LogEntry("commit_failed", 0)>>)
    /\ UNCHANGED <<image_files, video_files, repo_files, db_now, imp_method,
                   imp_items, imp_repo, start_ids>>

\* The repository row: merge into the stored row, or insert a new one.
import_repo_row ==
    /\ UNCHANGED imp_rest
    /\ imp_pc = "repo_row" /\ imp_method = "import_repo"
    /\ LET repo == imp_repo[1]
           existing_repo == session_get(repos, repo.id)
       IN IF existing_repo # None
          THEN \/ /\ repos' = [repos EXCEPT ![repo.id] =
                                 [@ EXCEPT !.git_metadata = repo.git_metadata,
                                           !.last_seen = Some(db_now)]]
                  /\ stream' = Append(stream, Event("Updated", repo.id))
                  /\ oplog' = oplog \o <<LogEntry("get", 0),
                                 LogEntry("commit", 0), LogEntry("yield", 0)>>
                  /\ imp_pc' = "items"
                  /\ UNCHANGED <<imp_error, imp_idx, created_count>>
               \/ /\ repos' = repos
                  /\ RaiseFrom("StorageError",
                         <<LogEntry("get", 0), LogEntry("commit_failed", 0)>>)
          ELSE \/ /\ CanCommit(repos, RepoEntityOf(repo))
                  /\ repos' = Committed(repos, RepoEntityOf(repo))
                  /\ stream' = Append(stream, Event("Created", repo.id))
                  /\ oplog' = oplog \o <<LogEntry("get", 0),
                                 LogEntry("commit", 0), LogEntry("yield", 0)>>
                  /\ imp_pc' = "items"
                  /\ created_count' =
                         [created_count EXCEPT ![<<"repos", repo.id>>] = @ + 1]
                  /\ UNCHANGED <<imp_error, imp_idx>>
               \/ /\ repos' = repos
                  /\ RaiseFrom("StorageError",
                         <<LogEntry("get", 0), LogEntry("commit_failed", 0)>>)
    /\ UNCHANGED <<image_files, video_files, repo_files, db_now, imp_method,
                   imp_items, imp_repo, start_ids>>

import_repo_file ==
    /\ UNCHANGED imp_rest
    /\ imp_pc = "items" /\ imp_method = "import_repo"
    /\ imp_idx < Len(imp_items)
    /\ LET file == imp_items[imp_idx + 1]
           existing_file ==
               query_repo_file(repo_files, imp_repo[1].id, FileId(file))
       IN import_item(repo_files, repo_files', "repo_files", existing_file,
                      RepoFileEntityOf(file, imp_repo[1].id), imp_idx + 1)
    /\ UNCHANGED <<image_files, video_files, repos, db_now, imp_method,
                   imp_items, imp_repo, start_ids>>

\* The for loop is exhausted: the session closes and the generator returns.
import_return ==
    /\ UNCHANGED imp_rest
    /\ imp_pc = "items"
    /\ imp_idx = Len(imp_items)
    /\ imp_pc' = "done"
    /\ UNCHANGED <<image_files, video_files, repos, repo_files, db_now,
                   imp_method, imp_items, imp_repo, imp_idx, stream,
                   imp_error, oplog, start_ids, created_count>>

ImporterInit ==
    /\ image_files = <<>>
    /\ video_files = <<>>
    /\ repos = <<>>
    /\ repo_files = <<>>
    /\ db_now = 0
    /\ imp_pc = "idle"
    /\ imp_method = "none"
    /\ imp_items = <<>>
    /\ imp_repo = None
    /\ imp_idx = 0
    /\ stream = <<>>
    /\ imp_error = None
    /\ oplog = <<>>
    /\ start_ids = {}
    /\ created_count = [k \in CountKeys |-> 0]

ImporterNext ==
    \/ \E images \in SeqsUpTo(FileRecords, MaxBatch) : import_images_start(images)
    \/ import_images_item
    \/ \E videos \in SeqsUpTo(FileRecords, MaxBatch) : import_videos_start(videos)
    \/ import_videos_item
    \/ \E repo \in RepoRecords : import_repo_start(repo)
    \/ import_repo_row
    \/ import_repo_file
    \/ import_return

\* ------------------------------------------------------------ RepoIndex
MaxOwner == 2   \* distinct owner parts of a remote URL
MaxName == 2    \* distinct repository / directory names
MaxParent == 2  \* distinct parent directories of a local repository
MaxCalls == 2   \* RepoIndex calls followed in one behaviour

DotGit == 0       \* the ".git" part of a URL's final segment
RemotesRoot == 0  \* the managed storage root (settings.remotes_dir)

\* A remote URL split at "/": the owner part and the final segment; the
\* final segment is the repository name, with or without ".git".
RemoteUrls ==
    {<<o, seg>> : o \in 1..MaxOwner,
                  seg \in {<<n>> : n \in 1..MaxName}
                            \cup {<<n, DotGit>> : n \in 1..MaxName}}

\* A local path: its parent directory and its final component (Path.name).
LocalPaths == {<<d, <<n>>>> : d \in 1..MaxParent, n \in 1..MaxName}

repo_name_keeping_git(remote_url) == remote_url[Len(remote_url)]
\* remote_url.split("/")[-1].replace(".git", "")
repo_name(remote_url) ==
    SelectSeq(remote_url[Len(remote_url)], LAMBDA t : t # DotGit)

\* self.__remotes_dir / name
managed_path(name) == <<RemotesRoot, name>>

\* How a call ended: it returned a value, or raised type "from" cause.
Returned(value) ==
    [outcome |-> "returned", type |-> "", cause |-> "", value |-> Some(value)]
Raised(type, cause) ==
    [outcome |-> "raised", type |-> type, cause |-> cause, value |-> None]

\* sqlite_utils Table.rows_where(...): a generator over the matching rows.
rows_where_scan_path(table, scan_path) ==
    [type |-> "generator",
     rows |-> SelectSeq(table, LAMBDA r : r.scan_path = scan_path)]

\* Truth value of an object in "if existing:": a generator object is true
\* whatever it would yield; a list is true when it has an element.
bool_of_rows(obj) == Len(obj.rows) > 0
bool(obj) == IF obj.type = "generator" THEN TRUE ELSE Len(obj.rows) > 0

\* ClonedRepoIdxEntity / LocalRepoIdxEntity as inserted (id left to the table).
ClonedEntity(remote_url, local_path) ==
    [remote_url |-> remote_url, storage_path |-> Some(local_path)]
LocalEntity(scan_path, storage_path, copy) ==
    [scan_path |-> scan_path,
     storage_path |-> IF copy THEN Some(storage_path) ELSE None]

RowsForUrl(remote_url) ==
    Cardinality({k \in DOMAIN cloned_repos :
                    cloned_repos[k].remote_url = remote_url})
RowsForPath(scan_path) ==
    Cardinality({k \in DOMAIN local_repos :
                    local_repos[k].scan_path = scan_path})

\* The record of a finished call, with what it found and did.
CallRecord(method, arg, copy, dir_existed, clone, before, after, result) ==
    [method |-> method, arg |-> arg, copy |-> copy,
     dir_existed |-> dir_existed, clone |-> clone,
     rows_before |-> before, rows_after |-> after, result |-> result]

\* except Exception as e: raise RepositoryCloningError(...) from e
\* catches every exception raised in the try block, the already-exists
\* error included.
except_Exception_cloning(e) == Raised("RepositoryCloningError", e)

\* RepoIndex.__add_remote_repository with the order of insert and clone
\* (insertFirst) open; add_remote_repo calls it and returns its result.
add_remote_repository_steps(remote_url, insertFirst) ==
    LET name == repo_name(remote_url)
        local_path == managed_path(name)
        entity == ClonedEntity(remote_url, local_path)
        before == RowsForUrl(remote_url)
        dir_existed == name \in remotes_dir
    IN /\ Len(last_call) < MaxCalls
       /\ UNCHANGED local_repos
       /\ IF dir_existed
          THEN /\ UNCHANGED <<cloned_repos, remotes_dir>>
               /\ last_call' = Append(last_call,
                     CallRecord("add_remote_repo", remote_url, FALSE, TRUE,
                        "none", before, before,
                        except_Exception_cloning("RepositoryAlreadyExistsError")))
          ELSE \/ \* git.Repo.clone_from raises
                  /\ cloned_repos' = IF insertFirst
                                        THEN Append(cloned_repos, entity)
                                        ELSE cloned_repos
                  /\ UNCHANGED remotes_dir
                  /\ last_call' = Append(last_call,
                        CallRecord("add_remote_repo", remote_url, FALSE, FALSE,
                           "failed", before,
                           IF insertFirst THEN before + 1 ELSE before,
                           except_Exception_cloning("GitCommandError")))
               \/ \* the clone is made and the row is inserted
                  /\ remotes_dir' = remotes_dir \cup {name}
                  /\ cloned_repos' = Append(cloned_repos, entity)
                  /\ last_call' = Append(last_call,
                        CallRecord("add_remote_repo", remote_url, FALSE, FALSE,
                           "ok", before, before + 1, Returned(local_path)))
               \/ \* the clone is made and building or inserting the row raises
                  /\ remotes_dir' = remotes_dir \cup {name}
                  /\ UNCHANGED cloned_repos
                  /\ last_call' = Append(last_call,
                        CallRecord("add_remote_repo", remote_url, FALSE, FALSE,
                           "ok", before, before,
                           except_Exception_cloning("StorageError")))

\* The row is inserted before the clone is attempted.
add_remote_repo_insert_first(remote_url) ==
    /\ add_remote_repository_steps(remote_url, TRUE)
    /\ UNCHANGED reg_rest

\* RepoIndex.add_remote_repo(remote_url)
add_remote_repo(remote_url) ==
    /\ add_remote_repository_steps(remote_url, FALSE)
    /\ UNCHANGED reg_rest

\* RepoIndex.add_local_repo(scan_path, copy) -> __add_local_repository.
\* "except Exception as e: log; raise" passes the exception on unchanged.
add_local_repository_steps(scan_path, copy) ==
    LET storage_path == IF copy THEN managed_path(scan_path[2]) ELSE scan_path
        existing == rows_where_scan_path(local_repos, scan_path)
        before == RowsForPath(scan_path)
        dir_existed == scan_path[2] \in remotes_dir
        done(clone, after, result) ==
            last_call' = Append(last_call,
                CallRecord("add_local_repo", scan_path, copy, dir_existed,
                           clone, before, after, result))
    IN /\ Len(last_call) < MaxCalls
       /\ UNCHANGED cloned_repos
       /\ IF bool(existing)
          THEN /\ UNCHANGED <<local_repos, remotes_dir>>
               /\ done("none", before,
                       Raised("RepositoryAlreadyExistsError", ""))
          ELSE IF copy /\ dir_existed
          THEN \* shutil.copytree onto an existing directory
               /\ UNCHANGED <<local_repos, remotes_dir>>
               /\ done("failed", before, Raised("FileExistsError", ""))
          ELSE \/ \* the copy (if asked for) is made and the row is inserted
                  /\ remotes_dir' = IF copy
                                       THEN remotes_dir \cup {scan_path[2]}
                                       ELSE remotes_dir
                  /\ local_repos' = Append(local_repos,
                        LocalEntity(scan_path, storage_path, copy))
                  /\ done(IF copy THEN "ok" ELSE "none", before + 1,
                          Returned(scan_path))
               \/ \* building or inserting the row raises
                  /\ remotes_dir' = IF copy
                                       THEN remotes_dir \cup {scan_path[2]}
                                       ELSE remotes_dir
                  /\ UNCHANGED local_repos
                  /\ done(IF copy THEN "ok" ELSE "none", before,
                          Raised("StorageError", ""))
               \/ \* shutil.copytree raises
                  /\ copy
                  /\ UNCHANGED <<local_repos, remotes_dir>>
                  /\ done("failed", before, Raised("OSError", ""))

add_local_repo(scan_path, copy) ==
    /\ add_local_repository_steps(scan_path, copy)
    /\ UNCHANGED reg_rest

\* RepoIndex.__init__: the managed root exists; the tables hold no rows.
RegistryInit ==
    /\ local_repos = <<>>
    /\ cloned_repos = <<>>
    /\ remotes_dir = {}
    /\ last_call = <<>>

RegistryNext ==
    \/ \E remote_url \in RemoteUrls : add_remote_repo(remote_url)
    \/ \E scan_path \in LocalPaths, copy \in BOOLEAN :
          add_local_repo(scan_path, copy)

\* ------------------------------- RepoIndex: two callers of add_local_repo
\* __add_local_repository reads the table (rows_where) and writes it
\* (insert) in separate statements with no lock or transaction around them,
\* so a second caller can run between the two.
Callers == {1, 2}

\* A caller enters add_local_repo(scan_path, copy).
add_local_repo_call(c, scan_path, copy) ==
    /\ race_pc[c] = "idle"
    /\ race_pc' = [race_pc EXCEPT ![c] = "check"]
    /\ race_args' = [race_args EXCEPT ![c] = Some(<<scan_path, copy>>)]
    /\ race_overlapped' =
          (race_overlapped
             \/ \E o \in Callers \ {c} : race_pc[o] \in {"check", "insert"})
    /\ UNCHANGED <<race_result, reg_vars, race_rest>>

\* The caller's next statement group: the existence check, or the copy and
\* the insert that follow it.
add_local_repository_step(c) ==
    LET scan_path == race_args[c][1][1]
        copy == race_args[c][1][2]
        storage_path == IF copy THEN managed_path(scan_path[2]) ELSE scan_path
        existing == rows_where_scan_path(local_repos, scan_path)
        finish(result) ==
            /\ race_pc' = [race_pc EXCEPT ![c] = "done"]
            /\ race_result' = [race_result EXCEPT ![c] = Some(result)]
    IN /\ race_pc[c] \in {"check", "insert"}
       /\ UNCHANGED <<race_args, race_overlapped, cloned_repos, last_call,
                      race_rest>>
       /\ IF race_pc[c] = "check"
          THEN /\ UNCHANGED <<local_repos, remotes_dir>>
               /\ IF bool(existing)
                  THEN finish(Raised("RepositoryAlreadyExistsError", ""))
                  ELSE /\ race_pc' = [race_pc EXCEPT ![c] = "insert"]
                       /\ UNCHANGED race_result
          ELSE IF copy /\ scan_path[2] \in remotes_dir
          THEN /\ UNCHANGED <<local_repos, remotes_dir>>
               /\ finish(Raised("FileExistsError", ""))
          ELSE \/ /\ remotes_dir' = IF copy
                                       THEN remotes_dir \cup {scan_path[2]}
                                       ELSE remotes_dir
                  /\ local_repos' = Append(local_repos,
                        LocalEntity(scan_path, storage_path, copy))
                  /\ finish(Returned(scan_path))
               \/ /\ remotes_dir' = IF copy
                                       THEN remotes_dir \cup {scan_path[2]}
                                       ELSE remotes_dir
                  /\ UNCHANGED local_repos
                  /\ finish(Raised("StorageError", ""))
               \/ /\ copy
                  /\ UNCHANGED <<local_repos, remotes_dir>>
                  /\ finish(Raised("OSError", ""))

RaceInit ==
    /\ race_pc = [c \in Callers |-> "idle"]
    /\ race_args = [c \in Callers |-> None]
    /\ race_result = [c \in Callers |-> None]
    /\ race_overlapped = FALSE

RaceNext ==
    \/ \E c \in Callers, scan_path \in LocalPaths, copy \in BOOLEAN :
          add_local_repo_call(c, scan_path, copy)
    \/ \E c \in Callers : add_local_repository_step(c)
    \/ \E remote_url \in RemoteUrls :
          add_remote_repo(remote_url)

\* ------------------------------------------- RepoIndex: update generators
MaxRows == 2   \* rows a registry table holds when an update call starts

\* One yielded tuple (repo_path, success_flag, error_message).
Outcome(repo_path, success, message) ==
    [path |-> repo_path, success |-> success, message |-> message]

\* The rows the tables can hold: what the entity classes describe, a copy
\* or a clone being stored under its name in the managed root.
LocalRows ==
    {LocalEntity(p, managed_path(p[2]), c) : p \in LocalPaths, c \in BOOLEAN}
ClonedRows ==
    {ClonedEntity(u, managed_path(repo_name(u))) : u \in RemoteUrls}

\* The directory names the rows of the two tables occupy in the managed root.
StoredNames(locals, cloned) ==
    {locals[k].storage_path[1][2] :
        k \in {j \in DOMAIN locals : locals[j].storage_path # None}}
    \cup {cloned[k].storage_path[1][2] : k \in DOMAIN cloned}

\* Path.iterdir lists a directory in no particular order.
Orderings(S) ==
    {q \in [1..Cardinality(S) -> S] :
        \A i, j \in 1..Cardinality(S) : q[i] = q[j] => i = j}

\* RepoIndex.__iter_remotes_dir(): the directories of the managed root.
iter_remotes_dir == Orderings(remotes_dir)

\* RepoIndex.__get_local_repositories(): one entity per row, in row order.
get_local_repositories == local_repos

\* update_all_remotes(): the generator starts on the directory listing.
update_all_remotes_start ==
    /\ upd_pc = "idle"
    /\ upd_pc' = "running"
    /\ upd_method' = "update_all_remotes"
    /\ upd_entries' \in iter_remotes_dir
    /\ UNCHANGED <<upd_in_place, upd_idx, upd_out, upd_error, upd_rest>>

\* One pass of the loop of update_all_remotes: pull, yield success; any
\* exception is caught and yielded as a failure.
update_all_remotes_item ==
    /\ upd_pc = "running"
    /\ upd_method = "update_all_remotes"
    /\ upd_idx < Len(upd_entries)
    /\ LET repo_path == managed_path(upd_entries[upd_idx + 1])
       IN \E pulled \in BOOLEAN :
             upd_out' = Append(upd_out,
                 IF pulled THEN Outcome(repo_path, TRUE, None)
                           ELSE Outcome(repo_path, FALSE, Some("GitError")))
    /\ upd_idx' = upd_idx + 1
    /\ UNCHANGED <<upd_pc, upd_method, upd_in_place, upd_entries, upd_error,
                   upd_rest>>

\* update_all_locals(in_place): the generator starts on the table's rows.
update_all_locals_start(in_place) ==
    /\ upd_pc = "idle"
    /\ upd_pc' = "running"
    /\ upd_method' = "update_all_locals"
    /\ upd_in_place' = in_place
    /\ upd_entries' = get_local_repositories
    /\ UNCHANGED <<upd_idx, upd_out, upd_error, upd_rest>>

\* One pass of the loop of update_all_locals. repo_path is the scan path or
\* the storage path; the storage path of a row registered in place is None,
\* and None has no exists(): the AttributeError is raised before the try
\* block and leaves the generator.
update_all_locals_item ==
    /\ upd_pc = "running"
    /\ upd_method = "update_all_locals"
    /\ upd_idx < Len(upd_entries)
    /\ LET repo_entity == upd_entries[upd_idx + 1]
           repo_path == IF upd_in_place THEN Some(repo_entity.scan_path)
                                        ELSE repo_entity.storage_path
       IN IF repo_path = None
          THEN /\ upd_pc' = "raised"
               /\ upd_error' = Some("AttributeError")
               /\ UNCHANGED <<upd_idx, upd_out>>
          ELSE /\ \/ \* not repo_path.exists()
                     upd_out' = Append(upd_out,
                         Outcome(repo_path[1], FALSE, Some("not found")))
                  \/ \* git.Repo(repo_path); repo.git.fetch()
                     \E fetched \in BOOLEAN :
                        upd_out' = Append(upd_out,
                            IF fetched
                               THEN Outcome(repo_path[1], TRUE, None)
                               ELSE Outcome(repo_path[1], FALSE,
                                            Some("GitError")))
               /\ upd_idx' = upd_idx + 1
               /\ UNCHANGED <<upd_pc, upd_error>>
    /\ UNCHANGED <<upd_method, upd_in_place, upd_entries, upd_rest>>

\* The loop is over: the generator is exhausted.
update_return ==
    /\ upd_pc = "running"
    /\ upd_idx = Len(upd_entries)
    /\ upd_pc' = "done"
    /\ UNCHANGED <<upd_method, upd_in_place, upd_entries, upd_idx, upd_out,
                   upd_error, upd_rest>>

\* No update generator has been created.
UpdateInit ==
    /\ upd_pc = "idle"
    /\ upd_method = "none"
    /\ upd_in_place = TRUE
    /\ upd_entries = <<>>
    /\ upd_idx = 0
    /\ upd_out = <<>>
    /\ upd_error = None

\* RepoIndex.__init__ on a database and a managed root that earlier runs
\* filled: rows with distinct scan paths, clones and copies under distinct
\* names, and one directory per stored name.
StoredRegistryInit ==
    /\ local_repos \in SeqsUpTo(LocalRows, MaxRows)
    /\ cloned_repos \in SeqsUpTo(ClonedRows, MaxRows)
    /\ \A i, j \in DOMAIN local_repos :
          local_repos[i].scan_path = local_repos[j].scan_path => i = j
    /\ Cardinality(StoredNames(local_repos, cloned_repos))
          = Len(cloned_repos)
            + Cardinality({k \in DOMAIN local_repos :
                              local_repos[k].storage_path # None})
    /\ remotes_dir = StoredNames(local_repos, cloned_repos)
    /\ last_call = <<>>

UpdateNext ==
    \/ update_all_remotes_start
    \/ update_all_remotes_item
    \/ \E in_place \in BOOLEAN : update_all_locals_start(in_place)
    \/ update_all_locals_item
    \/ update_return

\* ------------------------------------------------- core.utils: git reads
\* What one call can meet: the two path tests, and for every read of the
\* repository whether it answers ("ok") or raises. repo.active_branch raises
\* TypeError on a detached HEAD; get_all_commits answers None on any failure.
GitEnvs ==
    [dot_git : BOOLEAN, is_dir : BOOLEAN,
     Repo : {"ok", "error"}, remotes : {"ok", "error"},
     active_branch : {"ok", "TypeError", "error"},
     branches : {"ok", "error"}, head_commit : {"ok", "error"},
     is_dirty : {"ok", "error"}, untracked_files : {"ok", "error"},
     get_all_commits : {"ok", "None"}]

\* try: repo.active_branch.name / except TypeError: "HEAD (detached)"
current_branch(env) ==
    IF env.active_branch = "ok" THEN Returned("branch")
    ELSE IF env.active_branch = "TypeError" THEN Returned("HEAD (detached)")
    ELSE Raised("GitError", "")

\* try: GitCommit(...) of repo.head.commit / except Exception: the dict
\* {"error": "Unable to get commit info"}
commit_info(env) ==
    IF env.head_commit = "ok" THEN [class |-> "GitCommit"]
                              ELSE [class |-> "dict", keys |-> {"error"}]

\* GitMetadata(...): latest_commit is a required GitCommit; a dict is
\* validated as one and the error dict lacks every field of GitCommit.
GitMetadata_accepting_any_commit(branch, commit, history) ==
    Returned([class |-> "GitMetadata", current_branch |-> branch,
              latest_commit |-> commit, commit_history |-> history])

GitMetadata(branch, commit, history) ==
    IF commit.class = "GitCommit"
       THEN Returned([class |-> "GitMetadata", current_branch |-> branch,
                      latest_commit |-> commit, commit_history |-> history])
       ELSE Raised("ValidationError", "")

\* The try block of get_git_metadata: the first read that raises ends it.
git_metadata_body(env) ==
    IF env.Repo = "error" \/ env.remotes = "error"
       THEN Raised("GitError", "")
    ELSE IF current_branch(env).outcome = "raised"
       THEN current_branch(env)
    ELSE IF env.branches = "error"
            \/ env.is_dirty = "error" \/ env.untracked_files = "error"
       THEN Raised("GitError", "")
    ELSE GitMetadata(current_branch(env).value[1], commit_info(env),
                     IF env.get_all_commits = "ok" THEN "commits"
                                                   ELSE "empty")

\* get_git_metadata(repo_path): None without a .git marker or a directory;
\* "except Exception: return None" around the body.
get_git_metadata(env) ==
    IF ~env.dot_git \/ ~env.is_dir
       THEN Returned(None)
    ELSE IF git_metadata_body(env).outcome = "raised"
       THEN Returned(None)
    ELSE Returned(Some(git_metadata_body(env).value[1]))

\* A caller applies get_git_metadata to the path it holds.
call_get_git_metadata ==
    /\ git_pc = "idle"
    /\ git_pc' = "done"
    /\ git_result' = get_git_metadata(git_env)
    /\ UNCHANGED <<git_env, git_rest>>

\* No call has been made on the path.
GitIdle ==
    /\ git_pc = "idle"
    /\ git_result = Returned(None)

GitInit == GitIdle /\ git_env \in GitEnvs

\* For the services that make no git read of their own.
GitUnused == GitIdle /\ git_env = None

GitNext == call_get_git_metadata

\* ------------------------------------------------------- Repo.populate
MaxScans == 2   \* Repo.populate calls followed on one directory

\* Suffixes of tracked files: ".md" is in MARKDOWN_EXTENSIONS, ".png" in
\* IMAGE_FORMAT_LIST, ".pyc" in neither.
Suffixes == {"md", "png", "pyc"}

\* A tracked file as the working tree holds it: present and readable,
\* present and unreadable, or listed by git and missing from the tree.
TrackedFiles ==
    [path : 1..MaxPath, suffix : Suffixes, sha256 : 1..MaxHash,
     on_disk : {"readable", "unreadable", "missing"}]

\* The git reads of a directory of each kind: a git repository answers
\* every read; a broken one has the .git marker and no readable repository.
GitEnvOf(dir) ==
    [dot_git |-> dir \in {"git", "broken"}, is_dir |-> dir # "file",
     Repo |-> IF dir = "git" THEN "ok" ELSE "error", remotes |-> "ok",
     active_branch |-> "ok", branches |-> "ok", head_commit |-> "ok",
     is_dirty |-> "ok", untracked_files |-> "ok", get_all_commits |-> "ok"]

\* BaseDirectory.populate(dir_path): the directory record, or the error
\* for a path that is absent or not a directory.
BaseDirectory_populate(dir) ==
    IF dir = "missing" THEN Raised("FileNotFoundError", "")
    ELSE IF dir = "file" THEN Raised("NotADirectoryError", "")
    ELSE Returned([class |-> "Repo", git_metadata |-> None, files |-> <<>>])

\* git.Repo(dir_path).git.ls_files().splitlines(): relative paths as str.
\* git.Repo raises on a directory that is not a repository.
ls_files(dir, tracked) ==
    IF dir = "git" THEN Returned(tracked)
                   ELSE Raised("InvalidGitRepositoryError", "")

is_markdown_formattable(suffix) == suffix = "md"

\* is_image_file(path): path.suffix.lower() in IMAGE_FORMAT_LIST; a str
\* has no attribute suffix.
is_image_file(path) ==
    IF path.class = "str" THEN Raised("AttributeError", "")
                          ELSE Returned(path.suffix = "png")

\* Repo._should_skip_file(file_rel_path): not (is_image_file(...) or ...),
\* the first test being evaluated first.
should_skip_file(file_rel_path) ==
    IF is_image_file(file_rel_path).outcome = "raised"
       THEN is_image_file(file_rel_path)
       ELSE Returned(~is_image_file(file_rel_path).value[1])

\* RepoFile.populate(file_path, repo_id, repo_root): BaseFileModel.populate
\* hashes the file, BaseTextFile.populate rejects a suffix that is not
\* markdown-formattable; any exception is re-raised as RuntimeError from it.
RepoFile_populate(f) ==
    IF f.on_disk = "unreadable" THEN Raised("RuntimeError", "RuntimeError")
    ELSE IF ~is_markdown_formattable(f.suffix)
       THEN Raised("RuntimeError", "ValueError")
    ELSE Returned([path |-> f.path, sha256 |-> f.sha256, tags |-> 0])

\* The loop of Repo.populate over file_ls from its k-th entry on, files
\* being the records appended so far: the first exception leaves the loop.
RECURSIVE populate_files(_, _, _)
populate_files(file_ls, k, files) ==
    IF k > Len(file_ls) THEN Returned(files)
    ELSE IF file_ls[k].on_disk = "missing"        \* not is_file()
       THEN populate_files(file_ls, k + 1, files)
    ELSE IF RepoFile_populate(file_ls[k]).outcome = "raised"
       THEN RepoFile_populate(file_ls[k])
    ELSE LET skip == should_skip_file([class |-> "str",
                                       suffix |-> file_ls[k].suffix])
         IN IF skip.outcome = "raised" THEN skip
            ELSE IF skip.value[1]
               THEN populate_files(file_ls, k + 1, files)
            ELSE populate_files(file_ls, k + 1,
                    Append(files, RepoFile_populate(file_ls[k]).value[1]))

\* The try block of Repo.populate(dir_path).
Repo_populate_body(dir, tracked) ==
    IF BaseDirectory_populate(dir).outcome = "raised"
       THEN BaseDirectory_populate(dir)
    ELSE IF ls_files(dir, tracked).outcome = "raised"
       THEN ls_files(dir, tracked)
    ELSE LET files == populate_files(ls_files(dir, tracked).value[1], 1, <<>>)
         IN IF files.outcome = "raised" THEN files
            ELSE Returned([class |-> "Repo",
                     git_metadata |-> get_git_metadata(GitEnvOf(dir)).value[1],
                     files |-> files.value[1]])

\* Repo.populate(dir_path): "except Exception as e: raise RuntimeError
\* from e" around the body.
Repo_populate(dir, tracked) ==
    IF Repo_populate_body(dir, tracked).outcome = "raised"
       THEN Raised("RuntimeError", Repo_populate_body(dir, tracked).type)
       ELSE Repo_populate_body(dir, tracked)

\* A caller scans the directory.
call_Repo_populate ==
    /\ Len(pop_calls) < MaxScans
    /\ pop_calls' = Append(pop_calls, Repo_populate(pop_dir, pop_files))
    /\ UNCHANGED <<pop_dir, pop_files, pop_rest>>

\* A directory of any kind; git lists each tracked path once.
PopulateInit ==
    /\ pop_dir \in {"missing", "file", "plain", "git", "broken"}
    /\ pop_files \in SeqsUpTo(TrackedFiles, MaxBatch)
    /\ \A i, j \in DOMAIN pop_files :
          pop_files[i].path = pop_files[j].path => i = j
    /\ pop_dir # "git" => pop_files = <<>>
    /\ pop_calls = <<>>

\* For the services that scan no directory.
PopulateUnused ==
    /\ pop_dir = "missing"
    /\ pop_files = <<>>
    /\ pop_calls = <<>>

PopulateNext == call_Repo_populate

\* ------------------------------------------------ BaseFileModel records
MaxStat == 2     \* distinct stat snapshots of a file

\* Identity relates two records: a behaviour follows a pair of them.
RecordPair == {"first", "second"}

\* get_file_sha256(file_path): the digest of the bytes, collision-free, is
\* modelled by the content it is computed from.
get_file_sha256(content) == content

\* BaseFileModel.populate(file_path) on an existing file: hash, stat and
\* path are read; tags are empty, descriptions None, frozen False.
BaseFileModel_populate(path, content, stat) ==
    /\ Len(recs) < Cardinality(RecordPair)
    /\ LET instance == [path |-> path, sha256 |-> get_file_sha256(content),
                        stat |-> stat, tags |-> 0,
                        short_description |-> None, frozen |-> FALSE]
       IN /\ recs' = Append(recs, instance)
          /\ rec_ids' = Append(rec_ids, FileId(instance))
    /\ UNCHANGED <<rec_rows, rec_rest>>

\* BaseFileModel.freeze(): self.frozen = True
freeze(i) ==
    /\ recs' = [recs EXCEPT ![i].frozen = TRUE]
    /\ UNCHANGED <<rec_ids, rec_rows, rec_rest>>

\* BaseFileModel.unfreeze(): self.frozen = False
unfreeze(i) ==
    /\ recs' = [recs EXCEPT ![i].frozen = FALSE]
    /\ UNCHANGED <<rec_ids, rec_rows, rec_rest>>

\* record.tags = tags (validate_tags accepts a list of strings)
set_tags(i, tags) ==
    /\ recs' = [recs EXCEPT ![i].tags = tags]
    /\ UNCHANGED <<rec_ids, rec_rows, rec_rest>>

\* record.short_description = text
set_short_description(i, text) ==
    /\ recs' = [recs EXCEPT ![i].short_description = Some(text)]
    /\ UNCHANGED <<rec_ids, rec_rows, rec_rest>>

\* ImageFile.entity: the row built from the record as it is now.
entity(i) ==
    /\ rec_rows' = rec_rows \cup {<<i, FileEntity(recs[i])>>}
    /\ UNCHANGED <<recs, rec_ids, rec_rest>>

\* No record has been populated.
RecordInit ==
    /\ recs = <<>>
    /\ rec_ids = <<>>
    /\ rec_rows = {}

RecordNext ==
    \/ \E path \in 1..MaxPath, content \in 1..MaxContent, stat \in 1..MaxStat :
          BaseFileModel_populate(path, content, stat)
    \/ \E i \in DOMAIN recs : freeze(i)
    \/ \E i \in DOMAIN recs : unfreeze(i)
    \/ \E i \in DOMAIN recs, tags \in 0..MaxTag : set_tags(i, tags)
    \/ \E i \in DOMAIN recs : set_short_description(i, 1)
    \/ \E i \in DOMAIN recs : entity(i)

\* ------------------------------------------------- LocalRepoScanner
MaxDepth == 2    \* deepest directory below base_path
MaxLeaves == 2   \* directories named to build the tree under base_path

\* Directory names: one that constants.IGNORE_PARTS lists and one it does
\* not list.
DirNames == {"node_modules", "pkg"}
IGNORE_PARTS == {"node_modules"}

\* A directory is named by its path relative to base_path.
DirPaths == UNION {[1..k -> DirNames] : k \in 1..MaxDepth}
IsPrefix(p, q) == Len(p) <= Len(q) /\ \A k \in 1..Len(p) : p[k] = q[k]

\* The directories of the tree: base_path, the leaves and their parents.
Directories ==
    {<<>>} \cup {p \in DirPaths : \E q \in walk_leaves : IsPrefix(p, q)}

\* The sub-directories of dirpath other than .git, by name.
SubDirs(dirpath) ==
    {n \in DirNames : Append(dirpath, n) \in Directories}

\* self.__logger = self.__logger.debug("Locating repositories..."): debug
\* returns None, and None has no attribute debug.
locate_repos_begin(recursive) ==
    /\ walk_pc \in {"idle", "done", "raised"}
    /\ walk_recursive' = recursive
    /\ walk_listed' = <<>>
    /\ walk_yielded' = <<>>
    /\ IF walk_logger = None
       THEN /\ walk_pc' = "raised"
            /\ walk_error' = Some("AttributeError")
            /\ UNCHANGED <<walk_logger, walk_stack>>
       ELSE /\ walk_logger' = None
            /\ walk_error' = None
            /\ walk_pc' = IF recursive THEN "os.walk" ELSE "iterdir"
            /\ walk_stack' = <<<<>>>>
    /\ UNCHANGED <<walk_leaves, walk_git>>

\* LocalRepoScanner.__locate_repos(base_path, recursive), up to its loop.
locate_repos_start(recursive) ==
    /\ locate_repos_begin(recursive)
    /\ UNCHANGED walk_rest

\* for dirpath, dirnames, filenames in os.walk(base_path): the next
\* directory is listed; when it holds .git it is yielded and .git is taken
\* out of dirnames; os.walk then descends into what dirnames still holds.
os_walk_step ==
    /\ UNCHANGED walk_rest
    /\ walk_pc = "os.walk" /\ walk_stack # <<>>
    /\ LET dirpath == Head(walk_stack)
       IN /\ walk_listed' = Append(walk_listed, dirpath)
          /\ walk_yielded' = IF dirpath \in walk_git
                                THEN Append(walk_yielded, dirpath)
                                ELSE walk_yielded
          /\ \E dirnames \in Orderings(SubDirs(dirpath)) :
                walk_stack' =
                    [k \in DOMAIN dirnames |-> Append(dirpath, dirnames[k])]
                        \o Tail(walk_stack)
    /\ UNCHANGED <<walk_leaves, walk_git, walk_logger, walk_pc,
                   walk_recursive, walk_error>>

\* for item in base_path.iterdir(): every directory of base_path that holds
\* .git is yielded, in the order the directory is listed.
iterdir_loop ==
    /\ UNCHANGED walk_rest
    /\ walk_pc = "iterdir"
    /\ walk_listed' = <<<<>>>>
    /\ \E items \in Orderings(SubDirs(<<>>)) :
          walk_yielded' =
              SelectSeq([k \in DOMAIN items |-> <<items[k]>>],
                        LAMBDA item : item \in walk_git)
    /\ walk_pc' = "done"
    /\ walk_stack' = <<>>
    /\ UNCHANGED <<walk_leaves, walk_git, walk_logger, walk_recursive,
                   walk_error>>

\* os.walk is exhausted: the generator returns.
locate_repos_return ==
    /\ UNCHANGED walk_rest
    /\ walk_pc = "os.walk" /\ walk_stack = <<>>
    /\ walk_pc' = "done"
    /\ UNCHANGED <<walk_leaves, walk_git, walk_logger, walk_recursive,
                   walk_stack, walk_listed, walk_yielded, walk_error>>

WalkIdle ==
    /\ walk_logger = Some("logger")
    /\ walk_pc = "idle"
    /\ walk_recursive = TRUE
    /\ walk_stack = <<>>
    /\ walk_listed = <<>>
    /\ walk_yielded = <<>>
    /\ walk_error = None

\* A scanner is constructed over some tree of directories, some of which
\* are git repositories.
WalkInit ==
    /\ walk_leaves \in {S \in SUBSET DirPaths : Cardinality(S) <= MaxLeaves}
    /\ walk_git \in SUBSET walk_leaves
    /\ WalkIdle

WalkUnused == walk_leaves = {} /\ walk_git = {} /\ WalkIdle

WalkNext ==
    \/ \E recursive \in BOOLEAN : locate_repos_start(recursive)
    \/ os_walk_step
    \/ iterdir_loop
    \/ locate_repos_return

\* -------------------------------------------- LocalRepoScanner.scan
\* Path(dirpath) as the registry takes it: parent directory and name.
Path(dirpath) ==
    <<SubSeq(dirpath, 1, Len(dirpath) - 1), <<dirpath[Len(dirpath)]>>>>

\* scan(base_path, recursive, copy) returns the generator of __index_repos;
\* its first step enters __locate_repos.
scan(recursive, copy) ==
    /\ scan_pc = "idle"
    /\ locate_repos_begin(recursive)
    /\ scan_copy' = copy
    /\ scan_pc' = IF walk_logger = None THEN "raised" ELSE "running"
    /\ scan_error' = IF walk_logger = None THEN Some("AttributeError")
                                           ELSE None
    /\ UNCHANGED <<scan_idx, scan_out, reg_vars, scan_rest>>

\* __locate_repos runs on to its next yield, or to its end, when the loop
\* of __index_repos asks for the next repository.
locate_repos_next ==
    /\ scan_pc = "running"
    /\ scan_idx = Len(walk_yielded)
    /\ os_walk_step \/ iterdir_loop \/ locate_repos_return

\* The body of "for repo_path in self.__locate_repos(...)": the repository
\* is added to the index and yielded; RepositoryAlreadyExistsError and any
\* other exception are logged through self.__logger.
index_repos_body ==
    /\ scan_pc = "running"
    /\ scan_idx < Len(walk_yielded)
    /\ LET repo_path == walk_yielded[scan_idx + 1]
           result == last_call'[Len(last_call')].result
       IN /\ add_local_repository_steps(Path(repo_path), scan_copy)
          /\ IF result.outcome = "returned"
             THEN /\ scan_out' = Append(scan_out, repo_path)
                  /\ scan_idx' = scan_idx + 1
                  /\ UNCHANGED <<scan_pc, scan_error>>
             ELSE IF walk_logger = None
             THEN \* self.__logger.info / self.__logger.error on None
                  /\ scan_pc' = "raised"
                  /\ scan_error' = Some("AttributeError")
                  /\ UNCHANGED <<scan_idx, scan_out>>
             ELSE /\ scan_idx' = scan_idx + 1
                  /\ UNCHANGED <<scan_pc, scan_out, scan_error>>
    /\ UNCHANGED <<scan_copy, walk_vars, scan_rest>>

\* __locate_repos is exhausted and every repository it yielded was taken.
index_repos_return ==
    /\ scan_pc = "running"
    /\ walk_pc = "done"
    /\ scan_idx = Len(walk_yielded)
    /\ scan_pc' = "done"
    /\ UNCHANGED <<scan_copy, scan_idx, scan_out, scan_error, reg_vars,
                   walk_vars, scan_rest>>

ScanInit ==
    /\ scan_pc = "idle"
    /\ scan_copy = FALSE
    /\ scan_idx = 0
    /\ scan_out = <<>>
    /\ scan_error = None

ScanNext ==
    \/ \E recursive, copy \in BOOLEAN : scan(recursive, copy)
    \/ locate_repos_next
    \/ index_repos_body
    \/ index_repos_return

\* ------------------------------------------------------ BaseTextFile
MaxLines == 3     \* most lines a text file is written from
MaxLineLen == 1   \* most characters of one line

\* Text is a sequence of characters; a line holds letters and blanks.
LineChars == {"a", " "}
LineTexts == SeqsUpTo(LineChars, MaxLineLen)
Newlines == {<<"\n">>, <<"\r", "\n">>, <<"\r">>}
Whitespace == {" ", "\t", "\n", "\r"}

\* The bytes of a file written from lines, each followed by the newline;
\* the last one only when final is set.
RECURSIVE write_text(_, _, _)
write_text(lines, newline, final) ==
    IF lines = <<>> THEN <<>>
    ELSE IF Len(lines) = 1
       THEN Head(lines) \o (IF final THEN newline ELSE <<>>)
    ELSE Head(lines) \o newline \o write_text(Tail(lines), newline, final)

\* file_path.open("r", ...): text mode with universal newlines, "\r\n" and
\* "\r" are read as "\n".
RECURSIVE open_r(_)
open_r(bytes) ==
    IF bytes = <<>> THEN <<>>
    ELSE IF Head(bytes) = "\r"
       THEN IF Len(bytes) > 1 /\ bytes[2] = "\n"
               THEN <<"\n">> \o open_r(Tail(Tail(bytes)))
               ELSE <<"\n">> \o open_r(Tail(bytes))
    ELSE <<Head(bytes)>> \o open_r(Tail(bytes))

\* The lines that are more than their terminator.
RECURSIVE readlines_nonblank(_)
readlines_nonblank(text) ==
    IF text = <<>> THEN <<>>
    ELSE IF \E k \in DOMAIN text : text[k] = "\n"
       THEN LET k == CHOOSE k \in DOMAIN text :
                        /\ text[k] = "\n"
                        /\ \A j \in 1..(k - 1) : text[j] # "\n"
            IN (IF k = 1 THEN <<>> ELSE <<SubSeq(text, 1, k)>>)
                   \o readlines_nonblank(SubSeq(text, k + 1, Len(text)))
    ELSE <<text>>

\* f.readlines(): the text cut after each "\n", terminators kept.
RECURSIVE readlines(_)
readlines(text) ==
    IF text = <<>> THEN <<>>
    ELSE IF \E k \in DOMAIN text : text[k] = "\n"
       THEN LET k == CHOOSE k \in DOMAIN text :
                        /\ text[k] = "\n"
                        /\ \A j \in 1..(k - 1) : text[j] # "\n"
            IN <<SubSeq(text, 1, k)>>
                   \o readlines(SubSeq(text, k + 1, Len(text)))
    ELSE <<text>>

\* str.rstrip(chars): every trailing character of chars is removed.
RECURSIVE rstrip(_, _)
rstrip(str, chars) ==
    IF str # <<>> /\ str[Len(str)] \in chars
       THEN rstrip(SubSeq(str, 1, Len(str) - 1), chars)
       ELSE str

\* str.strip(): leading and trailing whitespace is removed.
RECURSIVE lstrip(_, _)
lstrip(str, chars) ==
    IF str # <<>> /\ Head(str) \in chars THEN lstrip(Tail(str), chars) ELSE str
strip(str) == lstrip(rstrip(str, Whitespace), Whitespace)

TextFileLine(file_id, content, line_number) ==
    [file_id |-> file_id, content |-> content, line_number |-> line_number]

\* TextFileLine.is_empty
is_empty(line) == strip(line.content) = <<>>

\* BaseTextFile.populate(file_path) on a markdown-formattable file holding
\* bytes: the instance with its lines_json.
BaseTextFile_populate(file_path, bytes) ==
    LET instance == [path |-> file_path, sha256 |-> get_file_sha256(bytes)]
        lines == readlines(open_r(bytes))
    IN [path |-> file_path,
        sha256 |-> instance.sha256,
        lines_json |->
           [k \in 1..Len(lines) |->
               LET i == k - 1
                   line == lines[k]
               IN TextFileLine(FileId(instance),
                               rstrip(rstrip(line, {"\n"}), {"\r"}),
                               i + 1)]]

call_BaseTextFile_populate ==
    /\ UNCHANGED txt_rest
    /\ txt_instance = None
    /\ txt_instance' =
          Some(BaseTextFile_populate(txt_path,
                   write_text(txt_lines, txt_newline, txt_final)))
    /\ UNCHANGED <<txt_path, txt_lines, txt_newline, txt_final>>

\* A text file written from some lines with one newline convention; a last
\* line without terminator is not empty (it would not be a line).
TextInit ==
    /\ txt_path \in 1..MaxPath
    /\ txt_lines \in SeqsUpTo(LineTexts, MaxLines)
    /\ txt_newline \in Newlines
    /\ txt_final \in BOOLEAN
    /\ (~txt_final /\ txt_lines # <<>>) => txt_lines[Len(txt_lines)] # <<>>
    /\ txt_instance = None

TextUnused ==
    /\ txt_path = 1
    /\ txt_lines = <<>>
    /\ txt_newline = <<"\n">>
    /\ txt_final = TRUE
    /\ txt_instance = None

TextNext == call_BaseTextFile_populate

\* ------------------------------------------- line tables and triggers
MaxStored == 2   \* text-bearing rows stored

\* The two text-bearing tables with a line-shredding trigger.
TextTables == {"repo_files", "obsidian_files"}

\* JSON values of the lines_json column: an array of line objects, or an
\* object that may hold an array under the key "lines".
JsonArray(items) == [json |-> "array", items |-> items, lines |-> None]
JsonObject(lines) == [json |-> "object", items |-> <<>>, lines |-> lines]

\* NEW.lines_json::jsonb -> 'lines': NULL unless the value is an object
\* with that key.
json_get_lines(value) ==
    IF value.json = "object" THEN value.lines ELSE None

\* The lines_json a row is written with. RepoFile.entity passes the list
\* of TextFileLine; ObsidianNote.entity passes no lines_json and the column
\* default (dict) is stored.
entity_lines_json(table, record) ==
    IF table = "repo_files" THEN JsonArray(record.lines_json)
                            ELSE JsonObject(None)

\* trim(text): leading and trailing spaces are removed.
trim(text) == lstrip(rstrip(text, {" "}), {" "})

\* process_repo_file_lines() / process_obsidian_file_lines() for the row
\* NEW_row: the line rows of the file are deleted, then one row is inserted
\* for each element of lines_json -> 'lines' whose content is not blank.
process_file_lines(NEW_row, line_rows) ==
    LET cleared == {r \in line_rows : r.file_id # NEW_row.id}
        lines == json_get_lines(NEW_row.lines_json)
    IN IF lines = None THEN cleared
       ELSE cleared \cup
            {[file_id |-> NEW_row.id,
              line_number |-> lines[1][k].line_number,
              content |-> lines[1][k].content] :
                k \in {j \in DOMAIN lines[1] :
                          Len(trim(lines[1][j].content)) > 0}}

\* The rows stored in the text-bearing tables.
StoredCount ==
    Cardinality(DOMAIN shred_files["repo_files"])
        + Cardinality(DOMAIN shred_files["obsidian_files"])

\* session.add(record.entity); session.commit() of a text-bearing record
\* whose id is not stored: the row is inserted and the AFTER INSERT trigger
\* runs in the same transaction.
insert_text_record(table, path, lines) ==
    /\ UNCHANGED shred_rest
    /\ LET record == BaseTextFile_populate(path, write_text(lines, <<"\n">>, TRUE))
           row == [id |-> FileId(record),
                   lines_json |-> entity_lines_json(table, record),
                   record_lines |-> record.lines_json]
       IN /\ StoredCount < MaxStored
          /\ row.id \notin DOMAIN shred_files[table]
          /\ shred_files' =
                [shred_files EXCEPT ![table] = (row.id :> row) @@ @]
          /\ shred_lines' =
                [shred_lines EXCEPT ![table] = process_file_lines(row, @)]

ShredInit ==
    /\ shred_files = [t \in TextTables |-> <<>>]
    /\ shred_lines = [t \in TextTables |-> {}]

ShredNext ==
    \E table \in TextTables, path \in 1..MaxPath,
       lines \in SeqsUpTo(LineTexts, MaxLines) :
          insert_text_record(table, path, lines)

\* ------------------------------------------- kind-specific populate
MaxPopulates == 2   \* populate calls made one after the other

\* The record kinds: GenericFile, BaseTextFile, ImageFile, VideoFile,
\* SQLiteFile, AudioFile.
Kinds == {"generic", "text", "image", "video", "database", "audio"}

\* A file on disk: its path and its bytes, from which the kind-specific
\* payload (text, pixels, duration, ...) is derived.
DiskFiles == [path : 1..MaxPath, content : 1..MaxContent]

\* A record instance, and the class object handed back in its place.
Instance(kind, file, payload) ==
    [ref |-> "instance", kind |-> kind, path |-> Some(file.path),
     sha256 |-> Some(get_file_sha256(file.content)), payload |-> payload]
ClassObject(kind) ==
    [ref |-> "class", kind |-> kind, path |-> None, sha256 |-> None,
     payload |-> None]

\* super().populate(file_path) inside a classmethod. GenericFile,
\* BaseTextFile and VideoFile derive from core.base.BaseFileModel, whose
\* populate is a classmethod returning cls(...). ImageFile and SQLiteFile
\* derive from core.models.file_system.base.BaseFileModel, whose populate
\* is an instance method: reached through the class it is called with
\* file_path as self and no file_path.
super_populate(kind, file) ==
    IF kind \in {"image", "database"}
    THEN Raised("TypeError", "")
    ELSE Returned(Instance(kind, file, None))

\* <Kind>.populate(file_path), called on the class: the result and the
\* class-level attributes afterwards.
kind_populate(kind, file, class) ==
    CASE kind = "generic" ->
            [result |-> super_populate(kind, file), class |-> class]
      [] kind \in {"text", "video"} ->
            \* instance = super().populate(file_path); instance.<payload>
            \* = ...; return instance
            [result |-> Returned(Instance(kind, file, Some(file.content))),
             class |-> class]
      [] kind \in {"image", "database"} ->
            \* super().populate(file_path); cls.<payload> = ...; return cls
            IF super_populate(kind, file).outcome = "raised"
            THEN [result |-> super_populate(kind, file), class |-> class]
            ELSE [result |-> Returned(ClassObject(kind)),
                  class |-> [class EXCEPT ![kind] = Some(file.content)]]
      [] OTHER ->
            \* AudioFile.populate(self, file_path) is an instance method
            [result |-> Raised("TypeError", ""), class |-> class]

call_kind_populate(kind, file) ==
    /\ UNCHANGED kind_rest
    /\ Len(kind_calls) < MaxPopulates
    /\ kind_calls' =
          Append(kind_calls,
                 [kind |-> kind, file |-> file,
                  result |-> kind_populate(kind, file, kind_class).result])
    /\ kind_class' = kind_populate(kind, file, kind_class).class

KindInit ==
    /\ kind_class = [k \in Kinds |-> None]
    /\ kind_calls = <<>>

KindNext ==
    \E kind \in Kinds, file \in DiskFiles : call_kind_populate(kind, file)

\* ------------------------------------------------ core.utils: MIME type
MaxMimes == 3   \* get_mime_type calls made one after the other

\* File name suffixes: three the mimetypes registry knows, one it does not
\* know, and no suffix.
MimeSuffixes == {".md", ".png", ".mp4", ".zzz", ""}

\* mimetypes.guess_type(path, strict=False)[0]
guess_type(suffix) ==
    CASE suffix = ".md" -> Some("text/markdown")
      [] suffix = ".png" -> Some("image/png")
      [] suffix = ".mp4" -> Some("video/mp4")
      [] OTHER -> None

\* get_mime_type(file_path): the fallback is returned when the guess is
\* None; otherwise the function body ends without a return statement.
get_mime_type(suffix) ==
    LET mime_type == guess_type(suffix)
    IN IF mime_type = None
       THEN Returned(Some("application/octet-stream"))
       ELSE Returned(None)

call_get_mime_type(suffix) ==
    /\ UNCHANGED mime_rest
    /\ Len(mime_calls) < MaxMimes
    /\ mime_calls' =
          Append(mime_calls, [suffix |-> suffix, result |-> get_mime_type(suffix)])

MimeInit == mime_calls = <<>>

MimeNext == \E suffix \in MimeSuffixes : call_get_mime_type(suffix)

\* ---------------------------------------------------- ImageImporter
\* The image files of a scan result; for each, whether the database would
\* accept its row.
ScannedImages ==
    [path : 1..MaxPath, sha256 : 1..MaxHash, tags : 0..MaxTag,
     db : {"accepts", "rejects"}]

ImporterResult(success, file) == [success |-> success, file |-> FileId(file)]

\* ImageFileEntity(image_file.model_dump()): the declarative constructor
\* takes column values as keyword arguments only.
ImageFileEntity(arguments) ==
    IF arguments.positional # <<>>
    THEN Raised("TypeError", "")
    ELSE Returned(arguments.keywords)

process_result_start(scan_result) ==
    /\ UNCHANGED ii_rest
    /\ ii_pc \in {"idle", "done"}
    /\ ii_files' = scan_result
    /\ ii_idx' = 0
    /\ ii_results' = <<>>
    /\ ii_pc' = "files"
    /\ UNCHANGED ii_table

\* One pass of "for image_file in scan_result.files": the try block, and
\* the except block with session.rollback() when it raises.
process_result_file ==
    /\ UNCHANGED ii_rest
    /\ ii_pc = "files" /\ ii_idx < Len(ii_files)
    /\ LET image_file == ii_files[ii_idx + 1]
           image_entity ==
               ImageFileEntity([positional |-> <<image_file>>, keywords |-> <<>>])
       IN IF image_entity.outcome = "returned"
             /\ image_file.db = "accepts"
             /\ FileId(image_file) \notin ii_table
          THEN /\ ii_table' = ii_table \cup {FileId(image_file)}
               /\ ii_results' = Append(ii_results, ImporterResult(TRUE, image_file))
          ELSE /\ ii_table' = ii_table
               /\ ii_results' = Append(ii_results, ImporterResult(FALSE, image_file))
    /\ ii_idx' = ii_idx + 1
    /\ UNCHANGED <<ii_files, ii_pc>>

process_result_return ==
    /\ UNCHANGED ii_rest
    /\ ii_pc = "files" /\ ii_idx = Len(ii_files)
    /\ ii_pc' = "done"
    /\ UNCHANGED <<ii_table, ii_files, ii_idx, ii_results>>

ImageImporterInit ==
    /\ ii_table = {}
    /\ ii_files = <<>>
    /\ ii_idx = 0
    /\ ii_results = <<>>
    /\ ii_pc = "idle"

ImageImporterNext ==
    \/ \E scan_result \in SeqsUpTo(ScannedImages, MaxBatch) :
          process_result_start(scan_result)
    \/ process_result_file
    \/ process_result_return

\* ---------------------------------------------------- ScanRootManager
MaxRootCalls == 3   \* ScanRootManager calls made one after the other
MaxDetails == 1     \* details texts 1..MaxDetails (plus None)

\* self.__db["scan_roots"].rows_where("path = ?", [str(path)])
rows_where_path(table, path) ==
    [type |-> "generator",
     rows |-> SelectSeq(table, LAMBDA r : r.path = path)]

\* len(obj): a generator object has no len().
len(obj) ==
    IF obj.type = "generator" THEN Raised("TypeError", "")
                              ELSE Returned(Len(obj.rows))

\* ScanRootManager._check_existing(path)
check_existing(table, path) ==
    LET existing == rows_where_path(table, path)
    IN IF len(existing).outcome = "raised" THEN len(existing)
       ELSE Returned(len(existing).value[1] > 0)

\* Each method: the result of the call and the table after it.
add_scan_root(table, path, details) ==
    IF check_existing(table, path).outcome = "raised"
    THEN [result |-> check_existing(table, path), table |-> table]
    ELSE IF check_existing(table, path).value[1]
    THEN [result |-> Raised("ValueError", ""), table |-> table]
    ELSE [result |-> Returned(path),
          table |-> Append(table, [path |-> path, details |-> details])]

remove_scan_root(table, path) ==
    IF check_existing(table, path).outcome = "raised"
    THEN [result |-> check_existing(table, path), table |-> table]
    ELSE IF ~check_existing(table, path).value[1]
    THEN [result |-> Raised("ValueError", ""), table |-> table]
    ELSE [result |-> Returned(path),
          table |-> SelectSeq(table, LAMBDA r : r.path # path)]

update_scan_root(table, path, new_details) ==
    IF check_existing(table, path).outcome = "raised"
    THEN [result |-> check_existing(table, path), table |-> table]
    ELSE IF ~check_existing(table, path).value[1]
    THEN [result |-> Raised("ValueError", ""), table |-> table]
    ELSE [result |-> Returned(path),
          table |-> [k \in DOMAIN table |->
                       IF table[k].path = path /\ new_details # None
                       THEN [table[k] EXCEPT !.details = new_details]
                       ELSE table[k]]]

call_scan_root(method, path, details) ==
    /\ UNCHANGED sr_rest
    /\ Len(sr_calls) < MaxRootCalls
    /\ LET done == CASE method = "add_scan_root" ->
                          add_scan_root(sr_table, path, details)
                     [] method = "remove_scan_root" ->
                          remove_scan_root(sr_table, path)
                     [] OTHER -> update_scan_root(sr_table, path, details)
       IN /\ sr_table' = done.table
          /\ sr_calls' =
                Append(sr_calls,
                       [method |-> method, path |-> path,
                        before |-> sr_table, result |-> done.result])

ScanRootInit ==
    /\ sr_table = <<>>
    /\ sr_calls = <<>>

ScanRootNext ==
    \E method \in {"add_scan_root", "remove_scan_root", "update_scan_root"},
       path \in 1..MaxPath,
       details \in {None} \cup {Some(t) : t \in 1..MaxDetails} :
          call_scan_root(method, path, details)

\* ------------------------------------------- re-scan and re-import
\* The working tree of a repository at the time of a scan: the bytes each
\* tracked path holds. Between two scans any path may have been rewritten.
WorkingTrees == [1..MaxPath -> 1..MaxContent]

\* The record RepoFile.populate builds for tracked text file p of the tree.
ScannedFile(tree, p) ==
    RepoFile_populate([path |-> p, suffix |-> "md",
                       sha256 |-> get_file_sha256(tree[p]),
                       on_disk |-> "readable"]).value[1]

\* The Repo record of a scan of the tree: one RepoFile per tracked path.
ScannedRepo(tree, now) ==
    [id |-> <<1>>, git_metadata |-> None, last_seen |-> None,
     created_at |-> now,
     files |-> [p \in 1..MaxPath |-> ScannedFile(tree, p)]]

\* The repository is scanned and its record imported, again and again.
ReimportNext ==
    \/ \E tree \in WorkingTrees : import_repo_start(ScannedRepo(tree, db_now))
    \/ import_repo_row
    \/ import_repo_file
    \/ import_return

\* ------------------------------------------------------- specifications
GitStart ==
    /\ ImporterInit /\ RegistryInit /\ UpdateInit /\ GitInit /\ PopulateUnused
    /\ RecordInit /\ WalkUnused /\ TextUnused /\ ShredInit /\ KindInit
    /\ MimeInit /\ ImageImporterInit /\ ScanRootInit /\ RaceInit
    /\ ScanInit

GitSpec == GitStart /\ [][GitNext]_vars

PopulateStart ==
    /\ ImporterInit /\ RegistryInit /\ UpdateInit /\ GitUnused /\ PopulateInit
    /\ RecordInit /\ WalkUnused /\ TextUnused /\ ShredInit /\ KindInit
    /\ MimeInit /\ ImageImporterInit /\ ScanRootInit /\ RaceInit
    /\ ScanInit

PopulateSpec == PopulateStart /\ [][PopulateNext]_vars

RecordStart ==
    /\ ImporterInit /\ RegistryInit /\ UpdateInit /\ GitUnused /\ PopulateUnused
    /\ RecordInit /\ WalkUnused /\ TextUnused /\ ShredInit /\ KindInit
    /\ MimeInit /\ ImageImporterInit /\ ScanRootInit /\ RaceInit
    /\ ScanInit

RecordSpec == RecordStart /\ [][RecordNext]_vars

UpdateStart ==
    /\ ImporterInit /\ StoredRegistryInit /\ UpdateInit /\ GitUnused /\ PopulateUnused
    /\ RecordInit /\ WalkUnused /\ TextUnused /\ ShredInit /\ KindInit
    /\ MimeInit /\ ImageImporterInit /\ ScanRootInit /\ RaceInit
    /\ ScanInit

UpdateSpec == UpdateStart /\ [][UpdateNext]_vars

RegistryStart ==
    /\ ImporterInit /\ RegistryInit /\ UpdateInit /\ GitUnused /\ PopulateUnused
    /\ RecordInit /\ WalkUnused /\ TextUnused /\ ShredInit /\ KindInit
    /\ MimeInit /\ ImageImporterInit /\ ScanRootInit /\ RaceInit
    /\ ScanInit

RegistrySpec == RegistryStart /\ [][RegistryNext]_vars
ImporterStart ==
    /\ ImporterInit /\ RegistryInit /\ UpdateInit /\ GitUnused /\ PopulateUnused
    /\ RecordInit /\ WalkUnused /\ TextUnused /\ ShredInit /\ KindInit
    /\ MimeInit /\ ImageImporterInit /\ ScanRootInit /\ RaceInit
    /\ ScanInit

ImporterSpec == ImporterStart /\ [][ImporterNext]_vars

ReimportSpec == ImporterStart /\ [][ReimportNext]_vars

WalkStart ==
    /\ ImporterInit /\ RegistryInit /\ UpdateInit /\ GitUnused /\ PopulateUnused
    /\ RecordInit /\ WalkInit /\ TextUnused /\ ShredInit /\ KindInit
    /\ MimeInit /\ ImageImporterInit /\ ScanRootInit /\ RaceInit
    /\ ScanInit

WalkSpec == WalkStart /\ [][WalkNext]_vars

TextStart ==
    /\ ImporterInit /\ RegistryInit /\ UpdateInit /\ GitUnused /\ PopulateUnused
    /\ RecordInit /\ WalkUnused /\ TextInit /\ ShredInit /\ KindInit
    /\ MimeInit /\ ImageImporterInit /\ ScanRootInit /\ RaceInit
    /\ ScanInit

TextSpec == TextStart /\ [][TextNext]_vars

ShredSpec == ImporterStart /\ [][ShredNext]_vars

KindSpec == ImporterStart /\ [][KindNext]_vars

MimeSpec == ImporterStart /\ [][MimeNext]_vars

ImageImporterSpec == ImporterStart /\ [][ImageImporterNext]_vars

ScanRootSpec == ImporterStart /\ [][ScanRootNext]_vars
RaceSpec == ImporterStart /\ [][RaceNext]_vars
ScanSpec == WalkStart /\ [][ScanNext]_vars

\* ------------------------------------------- reading the current call
\* Events the call yields before the event of its first batch item.
Offset ==
    CASE imp_method = "import_images" -> 1
      [] imp_method = "import_repo" -> 2
      [] OTHER -> 0

\* The event yielded for batch item i.
ItemEvent(i) == stream[Offset + i]
ItemId(i) == FileId(imp_items[i])

\* The table the batch items of the current call are written to.
ItemTable ==
    CASE imp_method = "import_images" -> image_files
      [] imp_method = "import_videos" -> video_files
      [] OTHER -> repo_files

ItemTableName ==
    CASE imp_method = "import_images" -> "image_files"
      [] imp_method = "import_videos" -> "video_files"
      [] OTHER -> "repo_files"

\* Item i repeats an id that was stored when the call began or that an
\* earlier item of the batch carries.
SeenBefore(i) ==
    \/ ItemId(i) \in start_ids
    \/ \E j \in 1..(i - 1) : ItemId(j) = ItemId(i)

InItems == imp_pc \in {"items", "done", "raised"}

\* Position of an entry in the operation log (0 when absent).
LogPos(op, i) ==
    IF \E p \in DOMAIN oplog : oplog[p] = LogEntry(op, i)
    THEN CHOOSE p \in DOMAIN oplog : oplog[p] = LogEntry(op, i)
    ELSE 0

LogCount(op, i) == Cardinality({p \in DOMAIN oplog : oplog[p] = LogEntry(op, i)})

\* ------------------------------------------------------------- claims

\* C1: importing the same image record twice (in two calls of import_images,
\* or twice in one batch) yields Created for the first occurrence and
\* Conflict for the second, and storage holds exactly one row with that id:
\* an id gets at most one Created event over all calls, it is stored exactly
\* when it got one, every later occurrence is answered by Conflict, and a
\* repeated occurrence never ends the call with an error.
C1_CreatedThenConflict ==
    /\ \A id \in FileIds :
          /\ created_count[<<"image_files", id>>] <= 1
          /\ (created_count[<<"image_files", id>>] = 1) <=> (id \in DOMAIN image_files)
          /\ id \in DOMAIN image_files => image_files[id].id = id
    /\ (imp_method = "import_images" /\ InItems) =>
          /\ start_ids \subseteq DOMAIN image_files
          /\ \A i \in 1..imp_idx :
                /\ ItemEvent(i).id = ItemId(i)
                /\ ItemEvent(i).status =
                      IF SeenBefore(i) THEN "Conflict" ELSE "Created"
          /\ imp_pc = "raised" => ~SeenBefore(imp_idx + 1)

\* C1 witness: a second call of import_images has answered Conflict for an
\* id that an earlier call created, and one row is stored for it.
C1_Witness ==
    /\ imp_method = "import_images" /\ imp_pc = "done"
    /\ \E i \in 1..imp_idx :
          /\ ItemId(i) \in start_ids
          /\ ItemEvent(i).status = "Conflict"
          /\ created_count[<<"image_files", ItemId(i)>>] = 1
          /\ ItemId(i) \in DOMAIN image_files

\* C2: for every item of import_images or import_videos whose id is already
\* stored, the importer yields Conflict and writes nothing: the stored rows
\* and their contents are the same before and after the item.
C2_ConflictWritesNothing ==
    [][ ( /\ imp_method \in {"import_images", "import_videos"}
          /\ imp_pc = "items"
          /\ imp_idx < Len(imp_items)
          /\ ItemId(imp_idx + 1) \in DOMAIN ItemTable )
        => ( /\ stream' = Append(stream, Event("Conflict", ItemId(imp_idx + 1)))
             /\ imp_idx' = imp_idx + 1
             /\ imp_pc' = "items"
             /\ image_files' = image_files
             /\ video_files' = video_files ) ]_vars

\* C2 witness: Conflict was yielded for an item whose tags differ from the
\* tags of the row stored under its id.
C2_Witness ==
    /\ imp_method \in {"import_images", "import_videos"} /\ InItems
    /\ \E i \in 1..imp_idx :
          /\ ItemEvent(i).status = "Conflict"
          /\ ItemId(i) \in DOMAIN ItemTable
          /\ ItemTable[ItemId(i)].tags # imp_items[i].tags

\* C3: import_repo of a record whose id is stored merges: the stored row
\* keeps its created_at, its git_metadata and last_seen take the new values,
\* no repo row is added, and exactly one Updated event is yielded for it.
C3_MergeStep ==
    ( /\ imp_pc = "repo_row"
      /\ imp_repo[1].id \in DOMAIN repos
      /\ imp_pc' # "raised" )
    => LET id == imp_repo[1].id
       IN /\ DOMAIN repos' = DOMAIN repos
          /\ repos'[id].created_at = repos[id].created_at
          /\ repos'[id].git_metadata = imp_repo[1].git_metadata
          /\ repos'[id].last_seen = Some(db_now)
          /\ \A other \in DOMAIN repos \ {id} : repos'[other] = repos[other]
          /\ stream' = Append(stream, Event("Updated", id))

C3_OneRepoEvent ==
    (imp_method = "import_repo" /\ InItems /\ Len(stream) >= 2) =>
        /\ stream[2].status \in {"Created", "Updated"}
        /\ stream[2].id = imp_repo[1].id
        /\ \A k \in DOMAIN stream : stream[k].status = "Updated" => k = 2
        /\ created_count[<<"repos", imp_repo[1].id>>] <= 1
        /\ imp_repo[1].id \in DOMAIN repos

C5_FailureEndsTheCall ==
    /\ \A p \in DOMAIN oplog :
          oplog[p].op = "commit_failed" =>
              /\ imp_pc = "raised"
              /\ p = Len(oplog)
              /\ imp_error = Some(FileImporterError("StorageError"))
              /\ oplog[p].item = IF Len(stream) < Offset THEN 0 ELSE imp_idx + 1
              /\ \A q \in DOMAIN oplog : oplog[q].item <= oplog[p].item
              /\ Len(stream) = IF oplog[p].item = 0 THEN 1 ELSE Offset + imp_idx
    /\ imp_pc = "raised" =>
          /\ imp_error # None
          /\ oplog[Len(oplog)].op = "commit_failed"
    /\ imp_pc # "raised" => imp_error = None

\* C5 witness: the write of the first of two items failed.
C5_Witness ==
    /\ imp_pc = "raised"
    /\ imp_method = "import_images"
    /\ imp_idx = 0 /\ Len(imp_items) = 2
    /\ imp_error[1].cause = "StorageError"

\* C6: one transaction per item: when the batch aborts at item k, the table
\* holds what it held when the call began plus the row of every earlier item
\* that got Created; item k is not stored and no later item added a row.
C6_PriorCommitsStay ==
    (InItems /\ imp_pc = "raised" /\ Len(stream) >= Offset) =>
        LET k == imp_idx + 1
            created == {ItemId(i) : i \in {j \in 1..imp_idx :
                                              ItemEvent(j).status = "Created"}}
        IN /\ DOMAIN ItemTable = start_ids \cup created
           /\ \A i \in 1..imp_idx :
                 ItemEvent(i).status = "Created" =>
                    /\ ItemId(i) \in DOMAIN ItemTable
                    /\ ItemTable[ItemId(i)].tags = imp_items[i].tags
           /\ ItemId(k) \notin DOMAIN ItemTable
           /\ \A j \in k..Len(imp_items) :
                 ItemId(j) \in DOMAIN ItemTable => ItemId(j) \in start_ids \cup created

\* C6 witness: the batch aborted at its second item after the first was
\* created, and the first item's row is stored.
C6_Witness ==
    /\ imp_pc = "raised" /\ imp_method = "import_images"
    /\ imp_idx = 1 /\ Len(imp_items) = 2
    /\ ItemEvent(1).status = "Created"
    /\ ItemId(1) \in DOMAIN image_files
    /\ ItemId(2) \notin DOMAIN image_files

\* ------------------------------------------------- RepoIndex: reading aids
Calls == DOMAIN last_call

\* Call j is the second add_local_repo call made on its path.
SecondAddLocal(j) ==
    /\ last_call[j].method = "add_local_repo"
    /\ Cardinality({i \in 1..(j - 1) :
                       /\ last_call[i].method = "add_local_repo"
                       /\ last_call[i].arg = last_call[j].arg}) = 1

\* C7: add_local_repo(path, copy=False) on a path with no local_repos entry
\* returns the path and leaves exactly one local_repos entry for it, with an
\* empty storage path.
C7_AddLocalRegisters ==
    \A i \in Calls :
       (/\ last_call[i].method = "add_local_repo"
        /\ ~last_call[i].copy
        /\ last_call[i].rows_before = 0)
       => /\ last_call[i].result = Returned(last_call[i].arg)
          /\ last_call[i].rows_after = 1
          /\ \E k \in DOMAIN local_repos :
                local_repos[k] = LocalEntity(last_call[i].arg,
                                             last_call[i].arg, FALSE)

\* C8: the second add_local_repo call on a path raises
\* RepositoryAlreadyExistsError and leaves the registry as it found it, with
\* exactly one entry for that path.
C8_SecondAddLocalRejected ==
    \A j \in Calls :
       SecondAddLocal(j)
       => /\ last_call[j].result = Raised("RepositoryAlreadyExistsError", "")
          /\ last_call[j].rows_after = last_call[j].rows_before
          /\ last_call[j].rows_after = 1

\* C9: add_remote_repo on a URL whose target directory already exists in
\* the managed root raises RepositoryAlreadyExistsError itself, not the
\* cloning error, without cloning and without inserting a row.
C9_ExistingTargetIsAlreadyExists ==
    \A i \in Calls :
       (last_call[i].method = "add_remote_repo" /\ last_call[i].dir_existed)
       => /\ last_call[i].result.outcome = "raised"
          /\ last_call[i].result.type = "RepositoryAlreadyExistsError"
          /\ last_call[i].clone = "none"
          /\ last_call[i].rows_after = last_call[i].rows_before

\* C10: when the git clone fails, add_remote_repo raises
\* RepositoryCloningError whose cause is the clone's exception, and the
\* call inserts no cloned_repos row for the URL.
C10_CloneFailureInsertsNothing ==
    \A i \in Calls :
       (last_call[i].method = "add_remote_repo"
        /\ last_call[i].clone = "failed")
       => /\ last_call[i].result
                = Raised("RepositoryCloningError", "GitCommandError")
          /\ last_call[i].rows_after = last_call[i].rows_before
          /\ (\A j \in Calls : last_call[j].arg = last_call[i].arg
                                  => last_call[j].result.outcome = "raised")
             => \A k \in DOMAIN cloned_repos :
                   cloned_repos[k].remote_url # last_call[i].arg

\* A clone failed on a URL whose directory was free, after another URL had
\* been cloned and registered.
C10_Witness ==
    /\ Len(last_call) = 2
    /\ last_call[1].method = "add_remote_repo"
    /\ last_call[1].result.outcome = "returned"
    /\ Len(cloned_repos) = 1
    /\ last_call[2].method = "add_remote_repo"
    /\ last_call[2].clone = "failed"
    /\ ~last_call[2].dir_existed
    /\ last_call[2].result.type = "RepositoryCloningError"


\* C11: update_all_remotes and update_all_locals (in_place true or false)
\* never end by an exception, and once exhausted they have yielded exactly
\* one outcome for every registered entry: one per local_repos row, and one
\* for the storage path of every cloned_repos row.
C11_OneOutcomePerEntry ==
    /\ upd_pc # "raised"
    /\ upd_pc = "done" =>
          /\ upd_method = "update_all_locals"
                => Len(upd_out) = Len(local_repos)
          /\ upd_method = "update_all_remotes"
                => \A k \in DOMAIN cloned_repos :
                      Cardinality({i \in DOMAIN upd_out :
                          upd_out[i].path = cloned_repos[k].storage_path[1]})
                         = 1



\* ------------------------------------------------ git reads: reading aids
IsGitRepoPath(env) == env.dot_git /\ env.is_dir

\* A read made in the try block of get_git_metadata raised, a detached
\* HEAD (TypeError of active_branch) not counted.
DirectReadFailed(env) ==
    \/ \E r \in {"Repo", "remotes", "branches", "head_commit", "is_dirty",
                 "untracked_files"} : env[r] = "error"
    \/ env.active_branch = "error"

\* Any read of the repository failed, the commit history included.
AnyReadFailed(env) ==
    DirectReadFailed(env) \/ env.get_all_commits = "None"

GitValue == git_result.value[1]

\* C12 as stated: get_git_metadata never raises; it returns None without a
\* .git marker or a directory and whenever any git read fails, and a
\* GitMetadata otherwise.
C12_NoneOnAnyFailedRead ==
    git_pc = "done" =>
       /\ git_result.outcome = "returned"
       /\ (~IsGitRepoPath(git_env) \/ AnyReadFailed(git_env))
             => GitValue = None
       /\ (IsGitRepoPath(git_env) /\ ~AnyReadFailed(git_env))
             => GitValue # None

\* C12 amended: get_git_metadata never raises; it returns None without a
\* .git marker or a directory and whenever a read of its own try block
\* fails (the latest commit included); otherwise it returns a GitMetadata,
\* whose commit history is empty when the history could not be read.
C12_NoneOnDirectFailedRead ==
    git_pc = "done" =>
       /\ git_result.outcome = "returned"
       /\ (~IsGitRepoPath(git_env) \/ DirectReadFailed(git_env))
             => GitValue = None
       /\ (IsGitRepoPath(git_env) /\ ~DirectReadFailed(git_env))
             => /\ GitValue # None
                /\ GitValue[1].class = "GitMetadata"
                /\ git_env.get_all_commits = "None"
                      => GitValue[1].commit_history = "empty"

\* A repository whose latest commit alone cannot be read was answered by None.
C12_Witness ==
    /\ git_pc = "done"
    /\ IsGitRepoPath(git_env)
    /\ git_env.head_commit = "error"
    /\ \A r \in DOMAIN git_env \ {"dot_git", "is_dir", "head_commit"} :
          git_env[r] = "ok"
    /\ git_result = Returned(None)



\* C13: Repo.populate on a plain directory, one with no .git, completes
\* without raising and its record has git_metadata None.
C13_PlainDirectoryPopulates ==
    pop_dir = "plain" =>
       \A i \in DOMAIN pop_calls :
          /\ pop_calls[i].outcome = "returned"
          /\ pop_calls[i].value[1].git_metadata = None



\* C14: a file record's id is a function of (path, content hash) only: two
\* records with the same path and hash have the same id whatever their stat
\* snapshot, tags, description or frozen flag, and two records with the same
\* path and different hashes have different ids.
C14_IdFromPathAndHash ==
    \A i, j \in DOMAIN recs :
       recs[i].path = recs[j].path
          => (FileId(recs[i]) = FileId(recs[j]))
                <=> (recs[i].sha256 = recs[j].sha256)

\* Two records of one path and one content, populated under different stat
\* snapshots and since given different tags and frozen flags, have one id.
C14_Witness ==
    /\ Len(recs) = 2
    /\ recs[1].path = recs[2].path
    /\ recs[1].sha256 = recs[2].sha256
    /\ recs[1].stat # recs[2].stat
    /\ recs[1].tags # recs[2].tags
    /\ recs[1].frozen # recs[2].frozen
    /\ FileId(recs[1]) = FileId(recs[2])

\* C15 (step): no operation on the records changes the id of a record
\* that exists.
C15_IdKept ==
    \A i \in DOMAIN recs : FileId(recs[i])' = FileId(recs[i])

\* C15 (state): every record still has the id it was populated with, and
\* every entity built from a record carries that id.
C15_StoredIdIsPopulatedId ==
    /\ \A i \in DOMAIN recs : FileId(recs[i]) = rec_ids[i]
    /\ \A row \in rec_rows : row[2].id = rec_ids[row[1]]

\* C15: a record's id is fixed at creation: freeze, unfreeze, a tag or
\* description update and the conversion to an entity leave it unchanged,
\* and the id of the stored entity is the id the record was populated with.
C15_IdentityFixedAtCreation ==
    [][C15_IdKept]_vars /\ []C15_StoredIdIsPopulatedId

\* A record was frozen, tagged and described after it was populated, and
\* the entity built from it afterwards carries the id it was populated with.
C15_Witness ==
    \E i \in DOMAIN recs :
       /\ recs[i].frozen
       /\ recs[i].tags # 0
       /\ recs[i].short_description # None
       /\ \E row \in rec_rows :
             /\ row[1] = i
             /\ row[2].tags = recs[i].tags
             /\ row[2].id = rec_ids[i]



\* ------------------------------------------------ Repo.populate: reading aids
\* The ids of the file records of a manifest.
ManifestIds(result) ==
    {FileId(result.value[1].files[k]) :
        k \in DOMAIN result.value[1].files}

\* The tracked files are all on disk, readable and markdown-formattable.
AllTrackedAreText ==
    \A k \in DOMAIN pop_files :
       /\ pop_files[k].on_disk = "readable"
       /\ is_markdown_formattable(pop_files[k].suffix)

\* C16: scanning an unchanged repository directory twice produces two
\* manifests with identical sets of record ids, one id per tracked file (the
\* precondition of importing both without duplicate rows).
C16_RescanSameIds ==
    (pop_dir = "git" /\ AllTrackedAreText /\ Len(pop_calls) = 2)
       => /\ pop_calls[1].outcome = "returned"
          /\ pop_calls[2].outcome = "returned"
          /\ ManifestIds(pop_calls[1]) = ManifestIds(pop_calls[2])
          /\ Cardinality(ManifestIds(pop_calls[1])) = Len(pop_files)

\* The tracked file is on disk and RepoFile.populate raises on it.
PopulationFails(f) ==
    f.on_disk # "missing" /\ RepoFile_populate(f).outcome = "raised"

\* The ids of the tracked files that are on disk and that RepoFile.populate
\* accepts.
PopulatedIds ==
    {FileId(RepoFile_populate(pop_files[k]).value[1]) :
        k \in {j \in DOMAIN pop_files :
                 /\ pop_files[j].on_disk # "missing"
                 /\ RepoFile_populate(pop_files[j]).outcome = "returned"}}

\* C19: if populating one file fails during a scan, the scan does not
\* abort: the failing file is skipped and every other matched file of the
\* tree still appears in the resulting record list. Every Repo.populate
\* call on a repository with a tracked file whose population fails returns
\* a manifest, and the manifest holds the records of the other files.
C19_FailedFileSkipped ==
    (pop_dir = "git" /\ \E k \in DOMAIN pop_files : PopulationFails(pop_files[k]))
       => \A c \in DOMAIN pop_calls :
             /\ pop_calls[c].outcome = "returned"
             /\ ManifestIds(pop_calls[c]) = PopulatedIds

\* Some tracked file is on disk, readable and markdown-formattable.
SomeTrackedIsText ==
    \E k \in DOMAIN pop_files :
       /\ pop_files[k].on_disk = "readable"
       /\ is_markdown_formattable(pop_files[k].suffix)

ChangedSince(i, old) ==
    /\ FileId(old) \in start_ids
    /\ old.path = imp_items[i].path
    /\ old.sha256 # imp_items[i].sha256
    /\ ItemId(i) \notin start_ids

UnderIgnored(path) == \E k \in DOMAIN path : path[k] \in IGNORE_PARTS

\* C18: during a scan a directory whose name is in the ignore list (for
\* example node_modules) is pruned from descent, so that no entry below it
\* is ever visited or classified: the walk lists the entries of no
\* directory that is, or lies below, an ignored one, and yields no
\* repository there.
C18_IgnoredDirectoriesPruned ==
    /\ \A k \in DOMAIN walk_listed : ~UnderIgnored(walk_listed[k])
    /\ \A k \in DOMAIN walk_yielded : ~UnderIgnored(walk_yielded[k])

\* ------------------------------------------- BaseTextFile: reading aids
\* The line holds nothing but whitespace.
IsBlank(text) == \A k \in DOMAIN text : text[k] \in Whitespace

NonBlankLineRows(row) ==
    {[file_id |-> row.id,
      line_number |-> row.record_lines[k].line_number,
      content |-> row.record_lines[k].content] :
        k \in {j \in DOMAIN row.record_lines : ~is_empty(row.record_lines[j])}}

\* C21: after every committed insert or content update of a text-bearing
\* record (repo file or vault note), the derived per-line table holds for
\* that record exactly one row per non-blank line of the record's current
\* lines, with the original line numbers, and no row left over from earlier
\* content.
C21_LineTableFollowsContent ==
    \A table \in TextTables :
        shred_lines[table] =
            UNION {NonBlankLineRows(shred_files[table][id]) :
                      id \in DOMAIN shred_files[table]}

\* ------------------------------------------- populate: reading aids
\* The kind-specific payload a returned record shows now: its own, or the
\* one its class holds.
PayloadOf(record) ==
    IF record.ref = "class" THEN kind_class[record.kind] ELSE record.payload

\* C23: every kind-specific populate (generic, text, image, video, database,
\* audio) returns a fresh record instance and changes no shared or
\* class-level state: every call returns an instance of the file it was
\* given, the payload each returned record shows is that of its own file
\* also after later calls, and no class-level attribute is ever set.
C23_PopulateReturnsFreshInstance ==
    /\ \A k \in DOMAIN kind_calls :
          /\ kind_calls[k].result.outcome = "returned"
          /\ kind_calls[k].result.value[1].ref = "instance"
          /\ kind_calls[k].result.value[1].path = Some(kind_calls[k].file.path)
          /\ kind_calls[k].kind # "generic" =>
                PayloadOf(kind_calls[k].result.value[1])
                    = Some(kind_calls[k].file.content)
    /\ \A kind \in Kinds : kind_class[kind] = None

\* C24: get_mime_type returns a MIME type string for every path: the
\* extension's registered type when the extension is known (text/markdown
\* for .md, image/png for .png, video/mp4 for .mp4) and the fallback
\* application/octet-stream when it is not; it never returns None.
C24_MimeTypeForEveryPath ==
    \A k \in DOMAIN mime_calls :
       LET call == mime_calls[k]
       IN /\ call.result.outcome = "returned"
          /\ call.result.value[1] # None
          /\ call.result.value[1] =
                (IF guess_type(call.suffix) # None
                 THEN guess_type(call.suffix)
                 ELSE Some("application/octet-stream"))

\* ------------------------------------------- ImageImporter: reading aids
\* The write of file k of the current call fails: the database rejects the
\* row, or its id is stored already (by an earlier call or an earlier file).
WriteFails(k) ==
    \/ ii_files[k].db = "rejects"
    \/ \E j \in 1..(k - 1) :
          FileId(ii_files[j]) = FileId(ii_files[k]) /\ ii_files[j].db = "accepts"

\* C25: ImageImporter.process_result returns exactly one result per image
\* file of the scan result, in order; a failed write for one file is rolled
\* back and reported as success=False, and files already imported stay
\* committed while the files after it are still attempted. In a first call
\* on an empty table, result k belongs to file k, it reports failure
\* exactly when the write of file k fails, and the table holds the files
\* reported as imported.
C25_OneResultPerFile ==
    /\ ii_idx = Len(ii_results)
    /\ ii_pc = "done" => ii_idx = Len(ii_files)
    /\ \A k \in 1..ii_idx : ii_results[k].file = FileId(ii_files[k])
    /\ {ii_results[k].file : k \in {j \in 1..ii_idx : ii_results[j].success}}
          \subseteq ii_table
    /\ (\A id \in ii_table : \E k \in 1..ii_idx : ii_results[k].file = id)
          => \A k \in 1..ii_idx : ii_results[k].success <=> ~WriteFails(k)

\* ------------------------------------------- ScanRootManager: reading aids
\* The rows of the table with the path.
RootsAt(table, path) == {k \in DOMAIN table : table[k].path = path}

\* C26: ScanRootManager keeps at most one scan_roots row per path over any
\* sequence of add, update and remove calls: add_scan_root inserts one row
\* when the path is absent and raises ValueError (leaving the table
\* unchanged) when it is present; remove_scan_root and update_scan_root
\* raise ValueError when the path is absent.
C26_OneRowPerPath ==
    /\ \A path \in 1..MaxPath : Cardinality(RootsAt(sr_table, path)) <= 1
    /\ \A c \in DOMAIN sr_calls :
          LET call == sr_calls[c]
              present == RootsAt(call.before, call.path) # {}
          IN /\ (call.method = "add_scan_root" /\ ~present)
                   => call.result.outcome = "returned"
             /\ (call.method = "add_scan_root" /\ present)
                   => call.result.type = "ValueError"
             /\ (call.method # "add_scan_root" /\ ~present)
                   => call.result.type = "ValueError"

FailedManagedAdd ==
    /\ Len(last_call') = Len(last_call) + 1
    /\ LET call == last_call'[Len(last_call')]
       IN /\ call.result.outcome = "raised"
          /\ call.method = "add_remote_repo" \/ call.copy

\* C28: an add_remote_repo or add_local_repo(copy=True) call that fails
\* leaves the registry tables and the managed storage root as they were
\* before the call, so no directory of the failed attempt stays behind to
\* make a retry of the same add fail as already existing.
C28_FailedAddLeavesNoTrace ==
    [][FailedManagedAdd
         => UNCHANGED <<local_repos, cloned_repos, remotes_dir>>]_vars

\* Call i adds a URL while another URL with the same repository-name suffix
\* has been cloned and registered by an earlier call.
SameNameRegisteredBefore(i) ==
    \E j \in Calls :
       /\ j < i
       /\ last_call[j].method = "add_remote_repo"
       /\ last_call[j].result.outcome = "returned"
       /\ last_call[j].arg # last_call[i].arg
       /\ last_call[j].arg[2][1] = last_call[i].arg[2][1]

Repositories ==
    IF walk_recursive THEN walk_git ELSE {p \in walk_git : Len(p) = 1}

\* C30: scan never ends by an exception: a repository that is already
\* indexed or whose registration fails is skipped and the ones located after
\* it are still processed. Once exhausted, scan has visited every directory
\* under base_path that holds .git and has yielded exactly the paths it
\* newly registered.
C30_ScanSkipsFailuresAndContinues ==
    /\ scan_pc # "raised"
    /\ scan_pc = "done"
       => /\ {walk_yielded[k] : k \in DOMAIN walk_yielded} = Repositories
          /\ scan_idx = Len(walk_yielded)
          /\ {Path(scan_out[k]) : k \in DOMAIN scan_out}
                = {local_repos[k].scan_path : k \in DOMAIN local_repos}
          /\ Len(scan_out) = Len(local_repos)

====
